---- MODULE Spec2Model ----
(***************************************************************************)
(* Price tracking and alerting subsystem of the shopping backend:          *)
(* tracking_service.py (activity gate, price simulator, bounded log, the   *)
(* two background loops, purchase alerts) together with the request        *)
(* handlers that feed it (purchase, watchlist, dismissal, price drops).    *)
(*                                                                         *)
(* Units.  Prices are integer cents (the code rounds every simulated      *)
(* price to 2 decimals).  A percentage that the code rounds to 1 decimal   *)
(* is an integer number of tenths of a percent.  Time is an integer number *)
(* of units of 20 minutes (UnitsPerHour to the hour) since process start;  *)
(* datetime.now() is the variable now.                                     *)
(* product_name, brand, category and source_url are carried through the   *)
(* code unchanged and are left out of the records.                         *)
(***************************************************************************)
EXTENDS Integers, Sequences, FiniteSets, TLC

VARIABLES
    now,                    \* datetime.now(), units of 20 minutes
    last_active,            \* tracking_service.last_active
    tracking_running,       \* tracking_service.tracking_running
    tracking_log,           \* tracking_service.tracking_log
    appended,               \* history: every entry ever passed to _log, in order
    purchase_price_alerts,  \* tracking_service.purchase_price_alerts
    purchase_market_prices, \* tracking_service.purchase_market_prices
    watchlist,              \* the watchlist store
    purchase_history,       \* the purchase store
    ret,                    \* what the last handler or tick returned / observed
    wl_task,                \* lifespan's wl_task: the watchlist loop as a task
    pl_task,                \* lifespan's pl_task: the purchase loop as a task
    imported_watchlist,     \* the list that routers/tracking.py and
                            \* routers/spending.py imported from storage
    watchlist_rebound,      \* storage.watchlist is no longer that list
    _active_task,           \* routers/checkout.py _active_task (0: None)
    _status_queue,          \* routers/checkout.py _status_queue (0: None)
    queues,                 \* the asyncio.Queue objects made by auto_checkout
    tasks,                  \* the _run tasks made by auto_checkout
    streams,                \* the event_stream generators handed to the clients
    handlers                \* where each auto_checkout call stands

\* tracking_service.py's state and the clock
trackingVars == <<now, last_active, tracking_running, tracking_log, appended,
                  purchase_price_alerts, purchase_market_prices>>

\* the two background tasks created by lifespan
taskVars == <<wl_task, pl_task>>

\* module state of the routers
routerVars == <<imported_watchlist, watchlist_rebound>>

\* module state of routers/checkout.py and the objects it creates
checkoutVars == <<_active_task, _status_queue, queues, tasks, streams, handlers>>

\* state outside tracking_service.py and the two stores
extVars == <<taskVars, routerVars, checkoutVars>>

vars == <<now, last_active, tracking_running, tracking_log, appended,
          purchase_price_alerts, purchase_market_prices, watchlist,
          purchase_history, ret, extVars>>

----------------------------------------------------------------------------
(* Bounds of the model *)

MaxTime == 72          \* the clock stops advancing here (24 hours)
ClockStep == 72        \* units per long clock advance (24 hours)
MaxPurchases == 2      \* purchase records
MaxWatch == 2          \* watchlist items
MaxAppends == 3        \* log entries written, except in SpecLog
MaxLogAppends == 102   \* log entries written in SpecLog (past the cap of 100)
MaxMills == 300        \* prices given to the simulator in SpecSimulator, in tenths of a cent
MaxShort == 1          \* clock advances of one unit in SpecStatus
MaxStatusAppends == 22 \* log entries written in SpecStatus (past the 20 the status shows)
MaxScenarioTicks == 7  \* rechecks of the purchase in SpecScenario
MaxSchedAppends == 3   \* log entries written in SpecSched
MaxRunningAppends == 4 \* log entries written in SpecRunning
MaxResumeAppends == 3  \* log entries written in SpecResume
MaxRouterHistory == 2  \* price history entries of an item in SpecRouters
MaxCheckouts == 2      \* auto-checkout requests in SpecCheckout

PIDs == {"p1", "p2"}

(* Program constants *)

UnitsPerHour == 3       \* 3600 seconds, in clock units
INACTIVE_THRESHOLD == 24 * UnitsPerHour
LOG_CAPACITY == 100
RECENT_ACTIVITY == 20
NoTarget == -1         \* target_price = None

----------------------------------------------------------------------------
(* Arithmetic helpers *)

\* round() of the non-negative rational n / d to an integer, ties to even
RoundHalfEven(n, d) ==
    LET q == n \div d
        r == n % d
    IN  IF 2 * r < d THEN q
        ELSE IF 2 * r > d THEN q + 1
        ELSE IF q % 2 = 0 THEN q ELSE q + 1

Last(s) == s[Len(s)]

\* s[-k:]
Tail_k(s, k) == IF Len(s) <= k THEN s ELSE SubSeq(s, Len(s) - k + 1, Len(s))

----------------------------------------------------------------------------
(* Activity gate *)

\* mutants of is_user_active: the threshold counted as still active; the
\* subtraction the wrong way round
is_user_active_inclusive == (now - last_active) <= INACTIVE_THRESHOLD
is_user_active_reversed == (last_active - now) < INACTIVE_THRESHOLD

is_user_active == (now - last_active) < INACTIVE_THRESHOLD

\* mutant of update_activity: the request leaves last_active as it was
update_activity_skipped == last_active

\* update_activity(): last_active = datetime.now()
update_activity == now

----------------------------------------------------------------------------
(* Price simulator: the set of prices one call can return.                 *)
(* roll < 0.65: unchanged; roll < 0.88: round(p * (1 - drop), 2) with drop *)
(* in [0.01, 0.08]; else round(p * (1 + rise), 2) with rise in             *)
(* [0.01, 0.04].  p is in cents, so the rounded results are the integers   *)
(* between the rounded ends of each range.                                 *)

_simulate_price_check(p) ==
    {p} \cup (RoundHalfEven(92 * p, 100) .. RoundHalfEven(99 * p, 100))
        \cup (RoundHalfEven(101 * p, 100) .. RoundHalfEven(104 * p, 100))

\* mutant of _simulate_price_check_mills: a changed price is cut to whole
\* cents instead of rounded
_simulate_price_check_mills_cut(p) ==
    {p} \cup {10 * c : c \in ((92 * p) \div 1000) .. ((99 * p) \div 1000)}
        \cup {10 * c : c \in ((101 * p) \div 1000) .. ((104 * p) \div 1000)}

\* the same function on a price in tenths of a cent, as a client can send
\* one: the unchanged branch returns p as it is, the other two round to
\* whole cents
_simulate_price_check_mills(p) ==
    {p} \cup {10 * c : c \in RoundHalfEven(92 * p, 1000) .. RoundHalfEven(99 * p, 1000)}
        \cup {10 * c : c \in RoundHalfEven(101 * p, 1000) .. RoundHalfEven(104 * p, 1000)}

----------------------------------------------------------------------------
(* Tracking log *)

\* mutant of _log: the cap keeps the first entries, not the last
_log_keep_first(log, entry) ==
    LET l == Append(log, entry)
    IN  IF Len(l) > LOG_CAPACITY THEN SubSeq(l, 1, LOG_CAPACITY) ELSE l

_log(log, entry) ==
    LET l == Append(log, entry)
    IN  IF Len(l) > LOG_CAPACITY THEN Tail_k(l, LOG_CAPACITY) ELSE l

----------------------------------------------------------------------------
(* Purchase alerts *)

HasAlert(alerts, pid) == \E i \in 1..Len(alerts) : alerts[i].product_id = pid

\* next((a for a in purchase_price_alerts if a["product_id"] == pid), None)
FirstAlertIndex(alerts, pid) ==
    CHOOSE i \in 1..Len(alerts) :
        /\ alerts[i].product_id = pid
        /\ \A j \in 1..(i - 1) : alerts[j].product_id # pid

\* mutant of upsert_alert: no lookup of an existing alert
upsert_alert_always_append(alerts, alert) == Append(alerts, alert)

\* mutant of upsert_alert: an alert that exists is left as it is
upsert_alert_keep_existing(alerts, alert) ==
    IF HasAlert(alerts, alert.product_id)
    THEN alerts
    ELSE Append(alerts, alert)

\* existing.update(alert) if existing else purchase_price_alerts.append(alert)
upsert_alert(alerts, alert) ==
    IF HasAlert(alerts, alert.product_id)
    THEN [alerts EXCEPT ![FirstAlertIndex(alerts, alert.product_id)] = alert]
    ELSE Append(alerts, alert)

\* mutant of clear_purchase_alert: the filter drops every alert
clear_purchase_alert_all(alerts, product_id) ==
    SelectSeq(alerts, LAMBDA a : a.product_id # a.product_id)

clear_purchase_alert(alerts, product_id) ==
    SelectSeq(alerts, LAMBDA a : a.product_id # product_id)

\* mutant of make_alert: the percentage is taken of the market price
make_alert_percent_of_market(purchase, new_market, t) ==
    LET drop_amt == purchase.price - new_market
    IN  [product_id |-> purchase.product_id,
         purchased_price |-> purchase.price,
         current_market_price |-> new_market,
         savings |-> drop_amt,
         drop_percent |-> RoundHalfEven(drop_amt * 1000, new_market),
         timestamp |-> t]

\* mutant of make_alert: the savings are taken the wrong way round
make_alert_negative_savings(purchase, new_market, t) ==
    LET drop_amt == new_market - purchase.price
    IN  [product_id |-> purchase.product_id,
         purchased_price |-> purchase.price,
         current_market_price |-> new_market,
         savings |-> drop_amt,
         drop_percent |-> RoundHalfEven((purchase.price - new_market) * 1000, purchase.price),
         timestamp |-> t]

\* the alert dict built for a purchase whose market price fell to new_market
make_alert(purchase, new_market, t) ==
    LET drop_amt == purchase.price - new_market
    IN  [product_id |-> purchase.product_id,
         purchased_price |-> purchase.price,
         current_market_price |-> new_market,
         savings |-> drop_amt,
         drop_percent |-> RoundHalfEven(drop_amt * 1000, purchase.price),
         timestamp |-> t]

----------------------------------------------------------------------------
(* Purchase tracking loop: one pass of the for loop over the purchases.    *)
(* st = [pmp, alerts, log, app, steps]; steps records, per purchase, what  *)
(* the pass did.                                                           *)

\* mutant of current_market: every recheck starts from the purchase price
current_market_purchase_price(pmp, purchase) == purchase.price

current_market(pmp, purchase) ==
    IF purchase.product_id \in DOMAIN pmp
    THEN pmp[purchase.product_id] ELSE purchase.price

\* mutant of check_purchase_alert: a recovered price clears the alert
check_purchase_alert_autoclear(alerts, purchase, new_market, t) ==
    IF new_market < purchase.price
    THEN upsert_alert(alerts, make_alert(purchase, new_market, t))
    ELSE clear_purchase_alert(alerts, purchase.product_id)

\* the alert list after one purchase was checked against new_market
\* mutant of check_purchase_alert: a market price equal to the purchase
\* price raises the alert too
check_purchase_alert_at_or_below(alerts, purchase, new_market, t) ==
    IF new_market <= purchase.price
    THEN upsert_alert(alerts, make_alert(purchase, new_market, t))
    ELSE alerts

check_purchase_alert(alerts, purchase, new_market, t) ==
    IF new_market < purchase.price
    THEN upsert_alert(alerts, make_alert(purchase, new_market, t))
    ELSE alerts

purchase_step(st, purchase, new_market, t) ==
    LET pid == purchase.product_id
        dropped == new_market < purchase.price
        alerts2 == check_purchase_alert(st.alerts, purchase, new_market, t)
        entry == IF dropped
                 THEN [type |-> "purchase_price_drop", product_id |-> pid,
                       purchased_at |-> purchase.price,
                       current_market_price |-> new_market,
                       savings |-> purchase.price - new_market, timestamp |-> t]
                 ELSE [type |-> "purchase_checked", product_id |-> pid,
                       purchased_at |-> purchase.price,
                       current_market_price |-> new_market, timestamp |-> t]
    IN  [pmp |-> (pid :> new_market) @@ st.pmp,
         alerts |-> alerts2,
         log |-> _log(st.log, entry),
         app |-> Append(st.app, entry),
         steps |-> Append(st.steps,
                     [product_id |-> pid, price |-> purchase.price,
                      new_market |-> new_market, logged |-> entry.type,
                      alerts_before |-> st.alerts, alerts_after |-> alerts2])]

RECURSIVE purchase_pass(_, _, _, _)
\* every state the loop body can end in, from purchase i on
purchase_pass(st, purchases, i, t) ==
    IF i > Len(purchases) THEN {st}
    ELSE UNION { purchase_pass(purchase_step(st, purchases[i], nm, t), purchases, i + 1, t) :
                   nm \in _simulate_price_check(current_market(st.pmp, purchases[i])) }

paused_entry(kind, t) ==
    [type |-> kind, reason |-> "User inactive for 24+ hours", timestamp |-> t]

\* one tick of purchase_tracking_loop, after its sleep
PurchaseTick ==
    /\ IF ~is_user_active
       THEN /\ tracking_log' = _log(tracking_log, paused_entry("purchase_paused", now))
            /\ appended' = Append(appended, paused_entry("purchase_paused", now))
            /\ ret' = [op |-> "pl_tick", active |-> FALSE, steps |-> <<>>]
            /\ UNCHANGED <<purchase_price_alerts, purchase_market_prices>>
       ELSE \E st \in purchase_pass([pmp |-> purchase_market_prices,
                                     alerts |-> purchase_price_alerts,
                                     log |-> tracking_log, app |-> appended,
                                     steps |-> <<>>],
                                    purchase_history, 1, now) :
               /\ purchase_market_prices' = st.pmp
               /\ purchase_price_alerts' = st.alerts
               /\ tracking_log' = st.log
               /\ appended' = st.app
               /\ ret' = [op |-> "pl_tick", active |-> TRUE, steps |-> st.steps]
    /\ UNCHANGED extVars
    /\ UNCHANGED <<now, last_active, tracking_running, watchlist, purchase_history>>

----------------------------------------------------------------------------
(* Watchlist store *)

\* mutant of update_watchlist_price: the item is taken out and put back at
\* the end of the list
update_watchlist_price_reinserts(wl, product_id, new_price, t) ==
    IF \E i \in 1..Len(wl) : wl[i].product_id = product_id
    THEN LET k == CHOOSE i \in 1..Len(wl) :
                     /\ wl[i].product_id = product_id
                     /\ \A j \in 1..(i - 1) : wl[j].product_id # product_id
         IN  Append(SubSeq(wl, 1, k - 1) \o SubSeq(wl, k + 1, Len(wl)),
                    [wl[k] EXCEPT !.price_history =
                                      Append(@, [price |-> new_price, date |-> t]),
                                  !.price = new_price])
    ELSE wl

\* _update_watchlist_price / storage.update_watchlist_price: the first item
\* with this product id gets the observation appended and its price set
update_watchlist_price(wl, product_id, new_price, t) ==
    IF \E i \in 1..Len(wl) : wl[i].product_id = product_id
    THEN LET k == CHOOSE i \in 1..Len(wl) :
                     /\ wl[i].product_id = product_id
                     /\ \A j \in 1..(i - 1) : wl[j].product_id # product_id
         IN  [wl EXCEPT ![k] =
                 [@ EXCEPT !.price_history =
                               Append(@, [price |-> new_price, date |-> t]),
                           !.price = new_price]]
    ELSE wl

\* add_to_watchlist: an empty price_history is seeded from the price
seed_history(item, t) ==
    IF item.price_history = <<>>
    THEN [item EXCEPT !.price_history = <<[price |-> item.price, date |-> t]>>]
    ELSE item

----------------------------------------------------------------------------
(* Watchlist tracking loop: one pass of the for loop over list(watchlist). *)
(* The snapshot holds the same item objects as the store, so item i of the *)
(* snapshot is item i of st.wl.  st = [wl, log, app, steps].               *)

\* mutant of watchlist_step: an unchanged price is not logged
watchlist_step_unchanged_not_logged(st, i, new_price, t) ==
    LET item == st.wl[i]
        old_price == item.price
        entry == [type |-> "watchlist_price_update",
                  product_id |-> item.product_id,
                  old_price |-> old_price, new_price |-> new_price,
                  change |-> new_price - old_price, timestamp |-> t]
    IN  IF new_price # old_price
        THEN [wl |-> update_watchlist_price(st.wl, item.product_id, new_price, t),
              log |-> _log(st.log, entry),
              app |-> Append(st.app, entry),
              steps |-> Append(st.steps,
                          [index |-> i, product_id |-> item.product_id,
                           old_price |-> old_price, new_price |-> new_price,
                           logged |-> entry.type])]
        ELSE [st EXCEPT !.steps = Append(@,
                          [index |-> i, product_id |-> item.product_id,
                           old_price |-> old_price, new_price |-> new_price,
                           logged |-> "none"])]

watchlist_step(st, i, new_price, t) ==
    LET item == st.wl[i]
        old_price == item.price
        changed == new_price # old_price
        entry == IF changed
                 THEN [type |-> "watchlist_price_update",
                       product_id |-> item.product_id,
                       old_price |-> old_price, new_price |-> new_price,
                       change |-> new_price - old_price, timestamp |-> t]
                 ELSE [type |-> "watchlist_checked",
                       product_id |-> item.product_id,
                       price |-> old_price, timestamp |-> t]
    IN  [wl |-> IF changed
                THEN update_watchlist_price(st.wl, item.product_id, new_price, t)
                ELSE st.wl,
         log |-> _log(st.log, entry),
         app |-> Append(st.app, entry),
         steps |-> Append(st.steps,
                     [index |-> i, product_id |-> item.product_id,
                      old_price |-> old_price, new_price |-> new_price,
                      logged |-> entry.type])]

RECURSIVE watchlist_pass(_, _, _)
\* every state the loop body can end in, from item i on
watchlist_pass(st, i, t) ==
    IF i > Len(st.wl) THEN {st}
    ELSE UNION { watchlist_pass(watchlist_step(st, i, np, t), i + 1, t) :
                   np \in _simulate_price_check(st.wl[i].price) }

\* one tick of watchlist_tracking_loop, after its sleep
WatchlistTick ==
    /\ IF ~is_user_active
       THEN /\ tracking_running' = FALSE
            /\ tracking_log' = _log(tracking_log, paused_entry("watchlist_paused", now))
            /\ appended' = Append(appended, paused_entry("watchlist_paused", now))
            /\ ret' = [op |-> "wl_tick", active |-> FALSE, steps |-> <<>>]
            /\ UNCHANGED watchlist
       ELSE /\ tracking_running' = TRUE
            /\ \E st \in watchlist_pass([wl |-> watchlist, log |-> tracking_log,
                                         app |-> appended, steps |-> <<>>], 1, now) :
                  /\ watchlist' = st.wl
                  /\ tracking_log' = st.log
                  /\ appended' = st.app
                  /\ ret' = [op |-> "wl_tick", active |-> TRUE, steps |-> st.steps]
    /\ UNCHANGED extVars
    /\ UNCHANGED <<now, last_active, purchase_price_alerts, purchase_market_prices,
                   purchase_history>>

----------------------------------------------------------------------------
(* Price-drop detector (GET /api/price-drops) *)

\* mutant of has_drop: an unchanged price counts as a drop
has_drop_or_equal(item) ==
    /\ Len(item.price_history) >= 2
    /\ Last(item.price_history).price <= item.price_history[Len(item.price_history) - 1].price

\* the test that lets an item into the result
has_drop(item) ==
    /\ Len(item.price_history) >= 2
    /\ Last(item.price_history).price < item.price_history[Len(item.price_history) - 1].price

\* mutant of drop_record: total_savings counted from the previous price
\* instead of the first one
drop_record_savings_from_previous(item) ==
    LET h == item.price_history
        current == h[Len(h)].price
        previous == h[Len(h) - 1].price
        original == h[1].price
        target == item.target_price
        drop_amt == previous - current
        hit_target == target # NoTarget /\ current <= target
    IN  [product_id |-> item.product_id,
         current_price |-> current,
         previous_price |-> previous,
         original_price |-> original,
         drop_amount |-> drop_amt,
         drop_percent |-> IF previous > 0 THEN RoundHalfEven(drop_amt * 1000, previous) ELSE 0,
         total_savings |-> IF current < previous THEN previous - current ELSE 0,
         target_price |-> target,
         hit_target |-> hit_target,
         alert_level |->
             IF (previous > 0 /\ drop_amt * 100 >= 15 * previous) \/ hit_target
             THEN "high"
             ELSE IF previous > 0 /\ drop_amt * 100 >= 5 * previous
                  THEN "medium" ELSE "low"]

\* the dict appended to drops for an item that passed has_drop
drop_record(item) ==
    LET h == item.price_history
        current == h[Len(h)].price
        previous == h[Len(h) - 1].price
        original == h[1].price
        target == item.target_price
        drop_amt == previous - current
        \* drop_pct = drop_amt / previous * 100 is kept exact: it is compared
        \* as drop_amt * 100 >= k * previous and reported rounded to 1 decimal
        hit_target == target # NoTarget /\ current <= target
    IN  [product_id |-> item.product_id,
         current_price |-> current,
         previous_price |-> previous,
         original_price |-> original,
         drop_amount |-> drop_amt,
         drop_percent |-> IF previous > 0 THEN RoundHalfEven(drop_amt * 1000, previous) ELSE 0,
         total_savings |-> IF current < original THEN original - current ELSE 0,
         target_price |-> target,
         hit_target |-> hit_target,
         alert_level |->
             IF (previous > 0 /\ drop_amt * 100 >= 15 * previous) \/ hit_target
             THEN "high"
             ELSE IF previous > 0 /\ drop_amt * 100 >= 5 * previous
                  THEN "medium" ELSE "low"]

RECURSIVE collect_drops(_, _)
\* the for loop: records of the items from i on, in watchlist order
collect_drops(wl, i) ==
    IF i > Len(wl) THEN <<>>
    ELSE IF has_drop(wl[i])
         THEN <<drop_record(wl[i])>> \o collect_drops(wl, i + 1)
         ELSE collect_drops(wl, i + 1)

\* insert d after every record whose drop_percent is >= d's (stable)
insert_drop(sorted, d) ==
    LET k == Cardinality({i \in 1..Len(sorted) : sorted[i].drop_percent >= d.drop_percent})
    IN  SubSeq(sorted, 1, k) \o <<d>> \o SubSeq(sorted, k + 1, Len(sorted))

RECURSIVE sort_drops_unsorted(_, _)
\* mutant of sort_drops: the records stay in watchlist order
sort_drops_unsorted(drops, n) ==
    IF n = 0 THEN <<>> ELSE Append(sort_drops_unsorted(drops, n - 1), drops[n])

RECURSIVE sort_drops(_, _)
\* drops.sort(key=drop_percent, reverse=True)
sort_drops(drops, n) ==
    IF n = 0 THEN <<>> ELSE insert_drop(sort_drops(drops, n - 1), drops[n])

RECURSIVE sum_drop_amount(_, _)
sum_drop_amount(drops, n) ==
    IF n = 0 THEN 0 ELSE sum_drop_amount(drops, n - 1) + drops[n].drop_amount

price_drops(wl) ==
    LET drops == sort_drops(collect_drops(wl, 1), Len(collect_drops(wl, 1)))
    IN  [drops |-> drops,
         total_potential_savings |-> sum_drop_amount(drops, Len(drops)),
         items_with_drops |-> Len(drops),
         watchlist_size |-> Len(wl)]

----------------------------------------------------------------------------
(* Request handlers.  The http middleware track_activity calls             *)
(* update_activity() before every handler.                                 *)

\* POST /api/purchase
Purchase(pid, price) ==
    /\ last_active' = update_activity
    /\ purchase_history' = Append(purchase_history,
           [product_id |-> pid, price |-> price, timestamp |-> now,
            shipping_status |-> "processing"])
    /\ ret' = [op |-> "purchase", http |-> 200, status |-> "success"]
    /\ UNCHANGED extVars
    /\ UNCHANGED <<now, tracking_running, tracking_log, appended,
                   purchase_price_alerts, purchase_market_prices, watchlist>>

\* mutant of DismissPurchaseAlert: the dismissal also forgets the market
\* price of the product
DismissPurchaseAlert_forgets_market(pid) ==
    /\ last_active' = update_activity
    /\ purchase_price_alerts' = clear_purchase_alert(purchase_price_alerts, pid)
    /\ purchase_market_prices' =
          [p \in DOMAIN purchase_market_prices \ {pid} |-> purchase_market_prices[p]]
    /\ ret' = [op |-> "dismiss", http |-> 200, status |-> "dismissed", product_id |-> pid]
    /\ UNCHANGED extVars
    /\ UNCHANGED <<now, tracking_running, tracking_log, appended,
                   watchlist, purchase_history>>

\* DELETE /api/tracking/purchase-alerts/{product_id}
DismissPurchaseAlert(pid) ==
    /\ last_active' = update_activity
    /\ purchase_price_alerts' = clear_purchase_alert(purchase_price_alerts, pid)
    /\ ret' = [op |-> "dismiss", http |-> 200, status |-> "dismissed", product_id |-> pid]
    /\ UNCHANGED extVars
    /\ UNCHANGED <<now, tracking_running, tracking_log, appended,
                   purchase_market_prices, watchlist, purchase_history>>

\* POST /api/watchlist
AddToWatchlist(item) ==
    /\ last_active' = update_activity
    /\ watchlist' = Append(watchlist, seed_history(item, now))
    /\ ret' = [op |-> "add_watchlist", http |-> 200, status |-> "success"]
    /\ UNCHANGED extVars
    /\ UNCHANGED <<now, tracking_running, tracking_log, appended,
                   purchase_price_alerts, purchase_market_prices, purchase_history>>

\* DELETE /api/watchlist/{product_id}
RemoveFromWatchlist(pid) ==
    /\ last_active' = update_activity
    /\ watchlist' = SelectSeq(watchlist, LAMBDA item : item.product_id # pid)
    /\ ret' = [op |-> "remove_watchlist", http |-> 200, status |-> "success"]
    /\ UNCHANGED extVars
    /\ UNCHANGED <<now, tracking_running, tracking_log, appended,
                   purchase_price_alerts, purchase_market_prices, purchase_history>>

\* GET /api/price-drops
PriceDrops ==
    /\ last_active' = update_activity
    /\ ret' = [op |-> "price_drops", http |-> 200] @@ price_drops(watchlist)
    /\ UNCHANGED extVars
    /\ UNCHANGED <<now, tracking_running, tracking_log, appended,
                   purchase_price_alerts, purchase_market_prices, watchlist,
                   purchase_history>>

\* mutant of get_tracking_status: recent_activity is the oldest 20 entries
get_tracking_status_first_entries ==
    LET time_left == IF INACTIVE_THRESHOLD - (now - last_active) > 0
                     THEN INACTIVE_THRESHOLD - (now - last_active) ELSE 0
    IN  [user_active |-> is_user_active,
         tracking_running |-> tracking_running /\ is_user_active,
         last_active |-> last_active,
         hours_until_pause |-> IF is_user_active
                               THEN RoundHalfEven(10 * time_left, UnitsPerHour)
                               ELSE 0,
         recent_activity |-> SubSeq(tracking_log, 1,
                                 IF Len(tracking_log) <= RECENT_ACTIVITY
                                 THEN Len(tracking_log) ELSE RECENT_ACTIVITY),
         purchase_alerts |-> purchase_price_alerts]

\* get_tracking_status(), read in the current state; hours_until_pause is
\* time_left / 3600 rounded to 1 decimal, in tenths of an hour
\* mutant of get_tracking_status: tracking_running is reported as stored
get_tracking_status_stored_flag ==
    LET time_left == IF INACTIVE_THRESHOLD - (now - last_active) > 0
                     THEN INACTIVE_THRESHOLD - (now - last_active) ELSE 0
    IN  [user_active |-> is_user_active,
         tracking_running |-> tracking_running,
         last_active |-> last_active,
         hours_until_pause |-> IF is_user_active
                               THEN RoundHalfEven(10 * time_left, UnitsPerHour)
                               ELSE 0,
         recent_activity |-> Tail_k(tracking_log, RECENT_ACTIVITY),
         purchase_alerts |-> purchase_price_alerts]

get_tracking_status ==
    LET time_left == IF INACTIVE_THRESHOLD - (now - last_active) > 0
                     THEN INACTIVE_THRESHOLD - (now - last_active) ELSE 0
    IN  [user_active |-> is_user_active,
         tracking_running |-> tracking_running /\ is_user_active,
         last_active |-> last_active,
         hours_until_pause |-> IF is_user_active
                               THEN RoundHalfEven(10 * time_left, UnitsPerHour)
                               ELSE 0,
         recent_activity |-> Tail_k(tracking_log, RECENT_ACTIVITY),
         purchase_alerts |-> purchase_price_alerts]

\* GET /api/tracking/status: the middleware has run when the status is read
TrackingStatus ==
    /\ last_active' = update_activity
    /\ UNCHANGED extVars
    /\ UNCHANGED <<now, tracking_running, tracking_log, appended,
                   purchase_price_alerts, purchase_market_prices, watchlist,
                   purchase_history>>
    /\ ret' = [op |-> "status", http |-> 200,
               watchlist_count |-> Len(watchlist),
               purchase_count |-> Len(purchase_history)] @@ get_tracking_status'

\* POST /api/tracking/heartbeat
TrackingHeartbeat ==
    /\ last_active' = update_activity
    /\ UNCHANGED extVars
    /\ UNCHANGED <<now, tracking_running, tracking_log, appended,
                   purchase_price_alerts, purchase_market_prices, watchlist,
                   purchase_history>>
    /\ ret' = [op |-> "heartbeat", http |-> 200, status |-> "alive",
               tracking |-> get_tracking_status'.tracking_running,
               last_active |-> get_tracking_status'.last_active]

\* the clock moves on by d units
AdvanceBy(d) ==
    /\ now + d <= MaxTime
    /\ now' = now + d
    /\ ret' = [op |-> "advance"]
    /\ UNCHANGED extVars
    /\ UNCHANGED <<last_active, tracking_running, tracking_log, appended,
                   purchase_price_alerts, purchase_market_prices, watchlist,
                   purchase_history>>

\* a day passes
Advance == AdvanceBy(ClockStep)

----------------------------------------------------------------------------
(* Simulated shipping status (routers/purchases.py) *)

\* seconds in one unit of the clock
SecondsPerUnit == 3600 \div UnitsPerHour

\* _STATUS_THRESHOLDS: seconds since purchase, highest first
_STATUS_THRESHOLDS ==
    << [threshold |-> 300, status |-> "delivered"],
       [threshold |-> 210, status |-> "out_for_delivery"],
       [threshold |-> 150, status |-> "in_transit"],
       [threshold |-> 90, status |-> "shipped"],
       [threshold |-> 40, status |-> "confirmed"],
       [threshold |-> 0, status |-> "processing"] >>

\* the first entry of _STATUS_THRESHOLDS that the elapsed seconds have
\* reached; processing when they have reached none
status_after(elapsed) ==
    LET reached == { k \in 1..Len(_STATUS_THRESHOLDS) :
                       elapsed >= _STATUS_THRESHOLDS[k].threshold }
    IN  IF reached = {} THEN "processing"
        ELSE _STATUS_THRESHOLDS[CHOOSE k \in reached :
                                   \A j \in reached : k <= j].status

_compute_status(purchase_time) ==
    status_after((now - purchase_time) * SecondsPerUnit)

\* GET /api/purchases: the records as stored
GetPurchases ==
    /\ last_active' = update_activity
    /\ ret' = [op |-> "purchases", http |-> 200, purchases |-> purchase_history]
    /\ UNCHANGED extVars
    /\ UNCHANGED <<now, tracking_running, tracking_log, appended,
                   purchase_price_alerts, purchase_market_prices, watchlist,
                   purchase_history>>

\* GET /api/purchases/shipping: computes each status, stores it in the
\* record and lists it
GetShippingStatuses ==
    /\ last_active' = update_activity
    /\ purchase_history' =
          [k \in 1..Len(purchase_history) |->
             [purchase_history[k] EXCEPT
                !.shipping_status = _compute_status(purchase_history[k].timestamp)]]
    /\ ret' = [op |-> "shipping", http |-> 200,
               shipments |->
                 [k \in 1..Len(purchase_history) |->
                    [product_id |-> purchase_history[k].product_id,
                     shipping_status |-> _compute_status(purchase_history[k].timestamp),
                     timestamp |-> purchase_history[k].timestamp]]]
    /\ UNCHANGED extVars
    /\ UNCHANGED <<now, tracking_running, tracking_log, appended,
                   purchase_price_alerts, purchase_market_prices, watchlist>>

----------------------------------------------------------------------------
(* The routers under routers/ over storage.py.  storage.watchlist is a     *)
(* module attribute: routers/watchlist.py reads and assigns it through the *)
(* module (storage.watchlist), storage.update_watchlist_price reads the    *)
(* module global, and routers/tracking.py and routers/spending.py bound    *)
(* the list object to a name of their own when they were imported.  Items  *)
(* are objects shared by every list that holds them; oid is the identity   *)
(* of an item.  These routes run without the activity middleware.          *)

\* the identities of the items that some list still holds
live_oids ==
    {watchlist[k].oid : k \in 1..Len(watchlist)}
        \cup {imported_watchlist[k].oid : k \in 1..Len(imported_watchlist)}

\* the identity of a newly built item: one that no live item has
fresh_oid ==
    CHOOSE n \in 1..(Cardinality(live_oids) + 1) :
        /\ n \notin live_oids
        /\ \A m \in 1..(n - 1) : m \in live_oids

\* the imported list after the store has become "current": it is the same
\* object as the store until the store is rebound; afterwards it keeps its
\* own items, which show what was written to them through the store
imported_after(rebound, current) ==
    IF ~rebound THEN current
    ELSE [k \in 1..Len(imported_watchlist) |->
            IF \E j \in 1..Len(current) : current[j].oid = imported_watchlist[k].oid
            THEN current[CHOOSE j \in 1..Len(current) :
                            current[j].oid = imported_watchlist[k].oid]
            ELSE imported_watchlist[k]]

\* POST /api/watchlist (routers/watchlist.py): storage.watchlist.append(item)
RouterAddToWatchlist(item) ==
    /\ watchlist' = Append(watchlist, seed_history(item, now) @@ [oid |-> fresh_oid])
    /\ imported_watchlist' = imported_after(watchlist_rebound, watchlist')
    /\ ret' = [op |-> "r_add_watchlist", http |-> 200, status |-> "success",
               watchlist |-> watchlist']
    /\ UNCHANGED <<trackingVars, purchase_history, taskVars, checkoutVars,
                   watchlist_rebound>>

\* DELETE /api/watchlist/{product_id} (routers/watchlist.py):
\* storage.watchlist = [the items with another product id]
RouterRemoveFromWatchlist(pid) ==
    /\ watchlist' = SelectSeq(watchlist, LAMBDA item : item.product_id # pid)
    /\ watchlist_rebound' = TRUE
    /\ ret' = [op |-> "r_remove_watchlist", http |-> 200, status |-> "success",
               watchlist |-> watchlist']
    /\ UNCHANGED <<trackingVars, purchase_history, taskVars, checkoutVars,
                   imported_watchlist>>

\* GET /api/watchlist (routers/watchlist.py)
RouterGetWatchlist ==
    /\ ret' = [op |-> "r_watchlist", http |-> 200, watchlist |-> watchlist]
    /\ UNCHANGED <<trackingVars, watchlist, purchase_history, extVars>>

\* GET /api/tracking/status (routers/tracking.py)
RouterTrackingStatus ==
    /\ ret' = [op |-> "r_status", http |-> 200,
               watchlist_count |-> Len(imported_watchlist),
               purchase_count |-> Len(purchase_history)] @@ get_tracking_status
    /\ UNCHANGED <<trackingVars, watchlist, purchase_history, extVars>>

\* GET /api/spending (routers/spending.py), by_category left out
RouterGetSpending ==
    /\ ret' = [op |-> "r_spending", http |-> 200,
               purchase_count |-> Len(purchase_history),
               watchlist_count |-> Len(imported_watchlist)]
    /\ UNCHANGED <<trackingVars, watchlist, purchase_history, extVars>>

\* storage.update_watchlist_price(product_id, new_price), the callback for
\* the background tracker
StorageUpdatePrice(pid, new_price) ==
    /\ watchlist' = update_watchlist_price(watchlist, pid, new_price, now)
    /\ imported_watchlist' = imported_after(watchlist_rebound, watchlist')
    /\ ret' = [op |-> "r_update", product_id |-> pid, new_price |-> new_price,
               before |-> watchlist]
    /\ UNCHANGED <<trackingVars, purchase_history, taskVars, checkoutVars,
                   watchlist_rebound>>

----------------------------------------------------------------------------
(* Auto-checkout (routers/checkout.py).  The c-th call of auto_checkout    *)
(* makes queue c, task c (_run) and stream c (event_stream).  _run and     *)
(* event_stream are closures that read the module global _status_queue     *)
(* each time they put or get.  Every action is what one coroutine does     *)
(* between two awaits.  A queue item is [step, run]; run names the task    *)
(* that put the item and is history: the dict the code puts does not say   *)
(* who made it.                                                            *)

\* the auto_checkout calls, in the order of arrival
Clients == 1..MaxCheckouts

\* the statuses run_amazon_checkout yields on its way, shortened to the
\* first and the last
RunSteps == <<"launching", "done">>

\* Queue.put on an unbounded queue
put(qs, q, item) == [qs EXCEPT ![q].items = Append(@, item)]

\* _active_task and not _active_task.done()
task_is_active == _active_task # 0 /\ tasks[_active_task].state # "done"

\* Task.cancel(): CancelledError will be thrown into the task at its await
request_cancel(ts) == [ts EXCEPT ![_active_task].state = "cancelling"]

\* auto_checkout from "_status_queue = asyncio.Queue()" to the return of
\* the StreamingResponse
setup(c) ==
    /\ _status_queue' = c
    /\ queues' = [queues EXCEPT ![c] = [items |-> <<>>, getters |-> <<>>]]
    /\ tasks' = [tasks EXCEPT ![c] = [state |-> "running", i |-> 0]]
    /\ _active_task' = c
    /\ streams' = [streams EXCEPT ![c] = [state |-> "open", out |-> <<>>]]
    /\ handlers' = [handlers EXCEPT ![c] = "returned"]

\* POST /api/auto-checkout arrives: with a run still active it is cancelled
\* and the handler sleeps for half a second; otherwise the handler goes
\* straight on
AutoCheckout(c) ==
    /\ handlers[c] = "none"
    /\ \A d \in 1..(c - 1) : handlers[d] # "none"
    /\ IF task_is_active
       THEN /\ tasks' = request_cancel(tasks)
            /\ handlers' = [handlers EXCEPT ![c] = "sleeping"]
            /\ UNCHANGED <<_active_task, _status_queue, queues, streams>>
       ELSE setup(c)
    /\ ret' = [op |-> "auto_checkout", client |-> c]
    /\ UNCHANGED <<trackingVars, watchlist, purchase_history, taskVars, routerVars>>

\* the handler's asyncio.sleep(0.5) returns
AutoCheckoutResume(c) ==
    /\ handlers[c] = "sleeping"
    /\ setup(c)
    /\ ret' = [op |-> "auto_checkout_resume", client |-> c]
    /\ UNCHANGED <<trackingVars, watchlist, purchase_history, taskVars, routerVars>>

\* _run: run_amazon_checkout yields its next status, which is put on the
\* queue that _status_queue names now
RunYield(t) ==
    /\ tasks[t].state = "running"
    /\ tasks[t].i < Len(RunSteps)
    /\ queues' = put(queues, _status_queue,
                     [step |-> RunSteps[tasks[t].i + 1], run |-> t])
    /\ tasks' = [tasks EXCEPT ![t].i = @ + 1]
    /\ ret' = [op |-> "run_yield", run |-> t]
    /\ UNCHANGED <<_active_task, _status_queue, streams, handlers>>
    /\ UNCHANGED <<trackingVars, watchlist, purchase_history, taskVars, routerVars>>

\* _run: run_amazon_checkout is exhausted; finally puts the sentinel None
RunFinish(t) ==
    /\ tasks[t].state = "running"
    /\ tasks[t].i = Len(RunSteps)
    /\ queues' = put(queues, _status_queue, [step |-> "None", run |-> t])
    /\ tasks' = [tasks EXCEPT ![t].state = "done"]
    /\ ret' = [op |-> "run_finish", run |-> t]
    /\ UNCHANGED <<_active_task, _status_queue, streams, handlers>>
    /\ UNCHANGED <<trackingVars, watchlist, purchase_history, taskVars, routerVars>>

\* _run: CancelledError arrives; once run_amazon_checkout has closed its
\* browser, the except branch puts "cancelled" and finally puts None, both
\* on the queue that _status_queue names by then
RunCancelled(t) ==
    /\ tasks[t].state = "cancelling"
    /\ queues' = put(put(queues, _status_queue, [step |-> "cancelled", run |-> t]),
                     _status_queue, [step |-> "None", run |-> t])
    /\ tasks' = [tasks EXCEPT ![t].state = "done"]
    /\ ret' = [op |-> "run_cancelled", run |-> t]
    /\ UNCHANGED <<_active_task, _status_queue, streams, handlers>>
    /\ UNCHANGED <<trackingVars, watchlist, purchase_history, taskVars, routerVars>>

\* POST /api/auto-checkout/cancel
CancelCheckout ==
    /\ IF task_is_active
       THEN /\ tasks' = request_cancel(tasks)
            /\ ret' = [op |-> "cancel_checkout", status |-> "cancelled"]
       ELSE /\ tasks' = tasks
            /\ ret' = [op |-> "cancel_checkout", status |-> "no_active_task"]
    /\ UNCHANGED <<_active_task, _status_queue, queues, streams, handlers>>
    /\ UNCHANGED <<trackingVars, watchlist, purchase_history, taskVars, routerVars>>

\* event_stream hands an item to its client: None ends the stream with a
\* stream_end event, anything else is sent as it is
deliver(ss, s, item) ==
    IF item.step = "None"
    THEN [ss EXCEPT ![s].state = "ended",
                    ![s].out = Append(@, [step |-> "stream_end", run |-> item.run])]
    ELSE [ss EXCEPT ![s].out = Append(@, item)]

\* the stream is suspended in a get()
is_getter(s) == \E q \in Clients : \E k \in 1..Len(queues[q].getters) :
                    queues[q].getters[k] = s

\* event_stream: item = await _status_queue.get(), on the queue that
\* _status_queue names now; an item that is there is taken at once,
\* otherwise the stream waits in line at that queue
StreamGet(s) ==
    /\ streams[s].state = "open"
    /\ ~is_getter(s)
    /\ LET q == _status_queue
       IN  IF queues[q].items # <<>> /\ queues[q].getters = <<>>
           THEN /\ streams' = deliver(streams, s, Head(queues[q].items))
                /\ queues' = [queues EXCEPT ![q].items = Tail(@)]
           ELSE /\ queues' = [queues EXCEPT ![q].getters = Append(@, s)]
                /\ streams' = streams
    /\ ret' = [op |-> "stream_get", stream |-> s]
    /\ UNCHANGED <<_active_task, _status_queue, tasks, handlers>>
    /\ UNCHANGED <<trackingVars, watchlist, purchase_history, taskVars, routerVars>>

\* event_stream: the get() it waits in returns the head of that queue
StreamWake(s) ==
    /\ \E q \in Clients :
          /\ queues[q].getters # <<>>
          /\ Head(queues[q].getters) = s
          /\ queues[q].items # <<>>
          /\ streams' = deliver(streams, s, Head(queues[q].items))
          /\ queues' = [queues EXCEPT ![q].items = Tail(@), ![q].getters = Tail(@)]
    /\ ret' = [op |-> "stream_wake", stream |-> s]
    /\ UNCHANGED <<_active_task, _status_queue, tasks, handlers>>
    /\ UNCHANGED <<trackingVars, watchlist, purchase_history, taskVars, routerVars>>

----------------------------------------------------------------------------
(* The two loops as asyncio tasks, one statement group at a time.  lifespan *)
(* creates both tasks on the server's event loop; every request handler is  *)
(* an async def on the same loop.  A coroutine keeps the event loop until   *)
(* it reaches an await, and the only await of either loop is the            *)
(* asyncio.sleep at the top of its while body.                              *)
(* A task is [state, i, start, at]: state is "sleep" (suspended in          *)
(* asyncio.sleep), "body" (between the sleep and the end of the for loop),  *)
(* "cancelled" or "failed"; i is the item the for loop is at (0 outside     *)
(* the body); start and at are the stores and the time when the body began  *)
(* (history, kept while the body runs and handed to ret when it ends).      *)

no_wl_frame == [wl |-> <<>>, log |-> <<>>, app |-> <<>>, steps |-> <<>>]

no_pl_frame == [pmp |-> [p \in {} |-> 0], alerts |-> <<>>, log |-> <<>>,
                app |-> <<>>, steps |-> <<>>, purchases |-> <<>>]

\* mutant of suspended: every statement of the body is a suspension point
suspended_anywhere(task) == TRUE

\* the task is not holding the event loop: it waits in its sleep or has ended
suspended(task) == task.state # "body"

\* no coroutine is in the middle of its synchronous part
EventLoopFree == suspended(wl_task) /\ suspended(pl_task)

\* lifespan has not yet cancelled the tasks
Serving == wl_task.state # "cancelled" /\ pl_task.state # "cancelled"

wl_frame == [wl |-> watchlist, log |-> tracking_log, app |-> appended,
             steps |-> <<>>]

pl_frame == [pmp |-> purchase_market_prices, alerts |-> purchase_price_alerts,
             log |-> tracking_log, app |-> appended, steps |-> <<>>,
             purchases |-> purchase_history]

\* watchlist_tracking_loop: the sleep returns, the gate is read, and either
\* the pause is logged (continue) or the snapshot is taken and the for loop
\* is entered
WlWake ==
    /\ wl_task.state = "sleep"
    /\ suspended(pl_task)
    /\ IF ~is_user_active
       THEN /\ tracking_running' = FALSE
            /\ tracking_log' = _log(tracking_log, paused_entry("watchlist_paused", now))
            /\ appended' = Append(appended, paused_entry("watchlist_paused", now))
            /\ wl_task' = wl_task
            /\ ret' = [op |-> "wl_wake", active |-> FALSE]
       ELSE /\ tracking_running' = TRUE
            /\ wl_task' = IF watchlist = <<>>
                           THEN wl_task
                           ELSE [state |-> "body", i |-> 1,
                                 start |-> wl_frame, at |-> now]
            /\ ret' = [op |-> "wl_wake", active |-> TRUE]
            /\ UNCHANGED <<tracking_log, appended>>
    /\ UNCHANGED <<now, last_active, purchase_price_alerts, purchase_market_prices,
                   watchlist, purchase_history, pl_task>>
    /\ UNCHANGED <<routerVars, checkoutVars>>

\* one iteration of the for loop of watchlist_tracking_loop; after the last
\* item of the snapshot the loop is back at its sleep
WlItem ==
    /\ wl_task.state = "body"
    /\ suspended(pl_task)
    /\ wl_task.i <= Len(watchlist)
    /\ \E np \in _simulate_price_check(watchlist[wl_task.i].price) :
          LET st == watchlist_step(wl_frame, wl_task.i, np, now)
          IN  /\ watchlist' = st.wl
              /\ tracking_log' = st.log
              /\ appended' = st.app
    /\ LET done == wl_task.i = Len(wl_task.start.wl)
       IN  /\ wl_task' = IF done
                         THEN [state |-> "sleep", i |-> 0,
                               start |-> no_wl_frame, at |-> 0]
                         ELSE [wl_task EXCEPT !.i = @ + 1]
           /\ ret' = [op |-> "wl_item", done |-> done,
                      start |-> wl_task.start, at |-> wl_task.at]
    /\ UNCHANGED <<now, last_active, tracking_running, purchase_price_alerts,
                   purchase_market_prices, purchase_history, pl_task>>
    /\ UNCHANGED <<routerVars, checkoutVars>>

\* purchase_tracking_loop: the sleep returns, the gate is read, and either
\* the pause is logged (continue) or the snapshot is taken and the for loop
\* is entered
PlWake ==
    /\ pl_task.state = "sleep"
    /\ suspended(wl_task)
    /\ IF ~is_user_active
       THEN /\ tracking_log' = _log(tracking_log, paused_entry("purchase_paused", now))
            /\ appended' = Append(appended, paused_entry("purchase_paused", now))
            /\ pl_task' = pl_task
            /\ ret' = [op |-> "pl_wake", active |-> FALSE]
       ELSE /\ pl_task' = [state |-> IF purchase_history = <<>> THEN "sleep" ELSE "body",
                           i |-> IF purchase_history = <<>> THEN 0 ELSE 1,
                           start |-> pl_frame, at |-> now]
            /\ ret' = [op |-> "pl_wake", active |-> TRUE]
            /\ UNCHANGED <<tracking_log, appended>>
    /\ UNCHANGED <<now, last_active, tracking_running, purchase_price_alerts,
                   purchase_market_prices, watchlist, purchase_history, wl_task>>
    /\ UNCHANGED <<routerVars, checkoutVars>>

\* one iteration of the for loop of purchase_tracking_loop
PlItem ==
    /\ pl_task.state = "body"
    /\ suspended(wl_task)
    /\ pl_task.i <= Len(purchase_history)
    /\ LET purchase == purchase_history[pl_task.i]
       IN  \E nm \in _simulate_price_check(current_market(purchase_market_prices, purchase)) :
              LET st == purchase_step(pl_frame, purchase, nm, now)
              IN  /\ purchase_market_prices' = st.pmp
                  /\ purchase_price_alerts' = st.alerts
                  /\ tracking_log' = st.log
                  /\ appended' = st.app
    /\ LET done == pl_task.i = Len(pl_task.start.purchases)
       IN  /\ pl_task' = IF done
                         THEN [state |-> "sleep", i |-> 0,
                               start |-> no_pl_frame, at |-> 0]
                         ELSE [pl_task EXCEPT !.i = @ + 1]
           /\ ret' = [op |-> "pl_item", done |-> done,
                      start |-> pl_task.start, at |-> pl_task.at]
    /\ UNCHANGED <<now, last_active, tracking_running, watchlist, purchase_history,
                   wl_task>>
    /\ UNCHANGED <<routerVars, checkoutVars>>

\* an exception is raised while the for loop of watchlist_tracking_loop is
\* at item i (in _simulate_price_check, the update_watchlist_price callback
\* or _log): nothing in the loop catches it, so it leaves the coroutine and
\* the task ends holding the exception; what the earlier items wrote stays
WlFault ==
    /\ wl_task.state = "body"
    /\ suspended(pl_task)
    /\ wl_task' = [wl_task EXCEPT !.state = "failed"]
    /\ ret' = [op |-> "wl_fault", item |-> wl_task.i, logged |-> Len(appended)]
    /\ UNCHANGED <<now, last_active, tracking_running, tracking_log, appended,
                   purchase_price_alerts, purchase_market_prices, watchlist,
                   purchase_history, pl_task>>
    /\ UNCHANGED <<routerVars, checkoutVars>>

\* the same in purchase_tracking_loop
PlFault ==
    /\ pl_task.state = "body"
    /\ suspended(wl_task)
    /\ pl_task' = [pl_task EXCEPT !.state = "failed"]
    /\ ret' = [op |-> "pl_fault", item |-> pl_task.i, logged |-> Len(appended)]
    /\ UNCHANGED <<now, last_active, tracking_running, tracking_log, appended,
                   purchase_price_alerts, purchase_market_prices, watchlist,
                   purchase_history, wl_task>>
    /\ UNCHANGED <<routerVars, checkoutVars>>

\* Task.cancel(): CancelledError is thrown into the task where it is
\* suspended, and neither loop catches it; a task that has ended stays as
\* it is
cancel(task) ==
    IF task.state \in {"sleep", "body"}
    THEN [task EXCEPT !.state = "cancelled"]
    ELSE task

\* lifespan after its yield: wl_task.cancel(); pl_task.cancel()
Shutdown ==
    /\ EventLoopFree
    /\ Serving
    /\ wl_task' = cancel(wl_task)
    /\ pl_task' = cancel(pl_task)
    /\ ret' = [op |-> "shutdown"]
    /\ UNCHANGED <<now, last_active, tracking_running, tracking_log, appended,
                   purchase_price_alerts, purchase_market_prices, watchlist,
                   purchase_history>>
    /\ UNCHANGED <<routerVars, checkoutVars>>

----------------------------------------------------------------------------

Init ==
    /\ now = 0
    /\ last_active = 0
    /\ tracking_running = FALSE
    /\ tracking_log = <<>>
    /\ appended = <<>>
    /\ purchase_price_alerts = <<>>
    /\ purchase_market_prices = [p \in {} |-> 0]
    /\ watchlist = <<>>
    /\ purchase_history = <<>>
    /\ ret = [op |-> "init"]
    /\ wl_task = [state |-> "sleep", i |-> 0, start |-> no_wl_frame, at |-> 0]
    /\ pl_task = [state |-> "sleep", i |-> 0, start |-> no_pl_frame, at |-> 0]
    /\ imported_watchlist = watchlist
    /\ watchlist_rebound = FALSE
    /\ _active_task = 0
    /\ _status_queue = 0
    /\ queues = [q \in Clients |-> [items |-> <<>>, getters |-> <<>>]]
    /\ tasks = [t \in Clients |-> [state |-> "none", i |-> 0]]
    /\ streams = [c \in Clients |-> [state |-> "none", out |-> <<>>]]
    /\ handlers = [c \in Clients |-> "none"]

(* Purchases, the purchase loop and dismissals *)
NextPurchases ==
    \/ \E pid \in PIDs, price \in {20, 21} :
          Len(purchase_history) < MaxPurchases /\ Purchase(pid, price)
    \/ \E pid \in PIDs : DismissPurchaseAlert(pid)
    \/ (Len(appended) + Len(purchase_history) <= MaxAppends /\ PurchaseTick)
    \/ Advance

SpecPurchases == Init /\ [][NextPurchases]_vars

(* Watchlist requests, the watchlist loop and the detector *)
WatchItem(pid, pr, tg, h) ==
    [product_id |-> pid, price |-> pr, target_price |-> tg, price_history |-> h]

\* a history sent by the client with the item
ClientHistory == <<[price |-> 21, date |-> 0], [price |-> 21, date |-> 0]>>

WatchItems ==
    { WatchItem("p1", 20, 19, <<>>),
      WatchItem("p2", 20, NoTarget, ClientHistory) }

NextWatchlist ==
    \/ \E item \in WatchItems : Len(watchlist) < MaxWatch /\ AddToWatchlist(item)
    \/ \E pid \in PIDs : RemoveFromWatchlist(pid)
    \/ (Len(appended) + Len(watchlist) <= MaxAppends /\ WatchlistTick)
    \/ PriceDrops
    \/ Advance

SpecWatchlist == Init /\ [][NextWatchlist]_vars

(* The detector over watchlists of several items: items are added, the     *)
(* loop moves their prices, the detector is asked                          *)
NextDrops ==
    \/ \E item \in WatchItems : Len(watchlist) < MaxWatch /\ AddToWatchlist(item)
    \/ (Len(appended) + Len(watchlist) <= MaxAppends /\ WatchlistTick)
    \/ PriceDrops

SpecDrops == Init /\ [][NextDrops]_vars

(* The detector on an item whose price the loop moves across the 5% line *)
NextDetector ==
    \/ (watchlist = <<>> /\ AddToWatchlist(WatchItem("p1", 101, NoTarget, <<>>)))
    \/ (Len(appended) + Len(watchlist) <= MaxAppends /\ WatchlistTick)
    \/ PriceDrops
    \/ Advance

SpecDetector == Init /\ [][NextDetector]_vars

(* The simulator alone: it is applied to every price up to MaxMills        *)
Simulate(p) ==
    /\ \E r \in _simulate_price_check_mills(p) :
          ret' = [op |-> "simulate", price |-> p, result |-> r]
    /\ UNCHANGED extVars
    /\ UNCHANGED <<now, last_active, tracking_running, tracking_log, appended,
                   purchase_price_alerts, purchase_market_prices, watchlist,
                   purchase_history>>

NextSimulator == \E p \in 1..MaxMills : Simulate(p)

SpecSimulator == Init /\ [][NextSimulator]_vars

(* The status over a long log: one purchase, a few active ticks within the *)
(* first day (the clock moving in single units), then a day without a      *)
(* request and paused ticks; the status endpoint is asked at any time      *)
NextStatus ==
    \/ (purchase_history = <<>> /\ Purchase("p1", 20))
    \/ /\ Len(appended) < MaxStatusAppends
       /\ is_user_active => Len(appended) + Len(purchase_history) <= MaxAppends
       /\ PurchaseTick
    \/ TrackingStatus
    \/ (now < MaxShort /\ AdvanceBy(1))
    \/ Advance

SpecStatus == Init /\ [][NextStatus]_vars

(* The purchase bought at $50.  Of the prices the simulator can draw, the  *)
(* runs keep those in ScenarioOutcomes: down to $40 by 46 and 43, and up   *)
(* again to $45 by 41.50, 43 and 44                                        *)
ScenarioOutcomes == {4000, 4150, 4300, 4400, 4500, 4600}

ScenarioDraw ==
    \A pid \in DOMAIN purchase_market_prices :
        purchase_market_prices[pid] \in ScenarioOutcomes

NextScenario ==
    \/ (purchase_history = <<>> /\ Purchase("p1", 5000))
    \/ (Len(appended) < MaxScenarioTicks /\ PurchaseTick /\ ScenarioDraw')

SpecScenario == Init /\ [][NextScenario]_vars

(* An item sent with a history whose entry is dated by a client clock that *)
(* is one unit ahead of the server's                                       *)
AheadHistory == <<[price |-> 20, date |-> 1]>>

NextHistory ==
    \/ (watchlist = <<>> /\ AddToWatchlist(WatchItem("p1", 20, NoTarget, AheadHistory)))
    \/ (Len(appended) + Len(watchlist) <= MaxAppends /\ WatchlistTick)
    \/ Advance

SpecHistory == Init /\ [][NextHistory]_vars

(* Both loops side by side over purchases and watchlist items of the same  *)
(* products                                                                *)
NextLoops ==
    \/ \E pid \in PIDs : Len(purchase_history) < MaxPurchases /\ Purchase(pid, 20)
    \/ \E item \in WatchItems : Len(watchlist) < MaxWatch /\ AddToWatchlist(item)
    \/ (Len(appended) + Len(purchase_history) <= MaxAppends /\ PurchaseTick)
    \/ (Len(appended) + Len(watchlist) <= MaxAppends /\ WatchlistTick)

SpecLoops == Init /\ [][NextLoops]_vars

(* The log past its capacity.  Nobody sends a request, so the loops pause  *)
(* after 24 hours and every tick from then on writes one entry; the        *)
(* purchase loop joins in around the capacity.                             *)
NextLog ==
    \/ (Len(appended) < MaxLogAppends /\ WatchlistTick)
    \/ (Len(appended) < MaxLogAppends /\ Len(appended) >= LOG_CAPACITY - 2 /\ PurchaseTick)
    \/ Advance

SpecLog == Init /\ [][NextLog]_vars

(* The loops statement by statement on the event loop, with the handlers   *)
(* and the shutdown of lifespan.  The clock unit is 20 minutes, far longer *)
(* than a loop body, so no body sees the clock move.                       *)
\* the watchlist items of SpecSched: fresh items at 5 cents, a price the
\* simulator cannot move by a whole cent
SchedItems == {WatchItem(pid, 5, NoTarget, <<>>) : pid \in PIDs}

NextSched ==
    \/ \E pid \in PIDs : /\ EventLoopFree /\ Serving
                         /\ Len(purchase_history) < MaxPurchases
                         /\ Purchase(pid, 10)
    \/ \E item \in SchedItems : /\ EventLoopFree /\ Serving
                                /\ Len(watchlist) < MaxWatch
                                /\ AddToWatchlist(item)
    \/ (EventLoopFree /\ Serving /\ RemoveFromWatchlist("p1"))
    \/ (EventLoopFree /\ Serving /\ DismissPurchaseAlert("p1"))
    \/ (EventLoopFree /\ Serving /\ TrackingStatus)
    \/ (Len(appended) + Len(watchlist) <= MaxSchedAppends /\ WlWake)
    \/ WlItem
    \/ (Len(appended) + Len(purchase_history) <= MaxSchedAppends /\ PlWake)
    \/ PlItem
    \/ Shutdown

SpecSched == Init /\ [][NextSched]_vars

(* The loops statement by statement, with exceptions raised inside a body *)
NextFaults ==
    \/ \E pid \in PIDs : /\ EventLoopFree
                         /\ Len(purchase_history) < MaxPurchases
                         /\ Purchase(pid, 10)
    \/ \E item \in SchedItems : /\ EventLoopFree
                                /\ Len(watchlist) < MaxWatch
                                /\ AddToWatchlist(item)
    \/ (Len(appended) + Len(watchlist) <= MaxSchedAppends /\ WlWake)
    \/ WlItem
    \/ WlFault
    \/ (Len(appended) + Len(purchase_history) <= MaxSchedAppends /\ PlWake)
    \/ PlItem
    \/ PlFault

SpecFaults == Init /\ [][NextFaults]_vars

(* Purchases and the two ways of reading them *)
NextShipping ==
    \/ \E pid \in PIDs : Len(purchase_history) < MaxPurchases /\ Purchase(pid, 20)
    \/ GetPurchases
    \/ GetShippingStatuses
    \/ (now < MaxShort /\ AdvanceBy(1))
    \/ Advance

SpecShipping == Init /\ [][NextShipping]_vars

(* The tracking_running flag: both loops, the status read, the heartbeat   *)
(* and the clock, over one watchlist item whose price the simulator cannot *)
(* move by a whole cent                                                    *)
NextRunning ==
    \/ (watchlist = <<>> /\ AddToWatchlist(WatchItem("p1", 5, NoTarget, <<>>)))
    \/ (Len(appended) < MaxRunningAppends /\ WatchlistTick)
    \/ (Len(appended) < MaxRunningAppends /\ PurchaseTick)
    \/ TrackingStatus
    \/ TrackingHeartbeat
    \/ Advance

SpecRunning == Init /\ [][NextRunning]_vars

(* Pausing and resuming: both loops over up to two watchlist items and one *)
(* purchase, the heartbeat and the clock                                   *)
ResumeItems ==
    {WatchItem("p1", 5, NoTarget, <<>>), WatchItem("p2", 10, NoTarget, <<>>)}

NextResume ==
    \/ \E item \in ResumeItems : Len(watchlist) < MaxWatch /\ AddToWatchlist(item)
    \/ RemoveFromWatchlist("p1")
    \/ (purchase_history = <<>> /\ Purchase("p1", 5))
    \/ (Len(appended) + Len(watchlist) <= MaxResumeAppends /\ WatchlistTick)
    \/ (Len(appended) + Len(purchase_history) <= MaxResumeAppends /\ PurchaseTick)
    \/ TrackingHeartbeat
    \/ Advance

SpecResume == Init /\ [][NextResume]_vars

(* The router-based API: watchlist routes, the two routes that count the   *)
(* watchlist, and the price-update callback                                *)
NextRouters ==
    \/ \E item \in SchedItems : Len(watchlist) < MaxWatch /\ RouterAddToWatchlist(item)
    \/ \E pid \in PIDs : RouterRemoveFromWatchlist(pid)
    \/ RouterGetWatchlist
    \/ RouterTrackingStatus
    \/ RouterGetSpending
    \/ \E pid \in PIDs :
          /\ \A k \in 1..Len(watchlist) :
                Len(watchlist[k].price_history) < MaxRouterHistory
          /\ StorageUpdatePrice(pid, 4)

SpecRouters == Init /\ [][NextRouters]_vars

(* Auto-checkout requests, their runs and their event streams *)
NextCheckout ==
    \/ \E c \in Clients : AutoCheckout(c)
    \/ \E c \in Clients : AutoCheckoutResume(c)
    \/ \E t \in Clients : RunYield(t)
    \/ \E t \in Clients : RunFinish(t)
    \/ \E t \in Clients : RunCancelled(t)
    \/ CancelCheckout
    \/ \E s \in Clients : StreamGet(s)
    \/ \E s \in Clients : StreamWake(s)

SpecCheckout == Init /\ [][NextCheckout]_vars

(* The whole system: every handler and both loops, one product, at most   *)
(* one purchase record and one watchlist item at a time                    *)
Next ==
    \/ (purchase_history = <<>> /\ Purchase("p1", 20))
    \/ DismissPurchaseAlert("p1")
    \/ (watchlist = <<>> /\ AddToWatchlist(WatchItem("p1", 20, 19, <<>>)))
    \/ RemoveFromWatchlist("p1")
    \/ (Len(appended) + Len(purchase_history) <= MaxAppends /\ PurchaseTick)
    \/ (Len(appended) + Len(watchlist) <= MaxAppends /\ WatchlistTick)
    \/ PriceDrops
    \/ TrackingStatus
    \/ TrackingHeartbeat
    \/ Advance

Spec == Init /\ [][Next]_vars

----------------------------------------------------------------------------
(* Properties *)

TickOps == {"wl_tick", "pl_tick"}

\* the alert of product pid in a list that holds one
AlertFor(alerts, pid) ==
    alerts[CHOOSE i \in 1..Len(alerts) : alerts[i].product_id = pid]

\* the log entry written for step k of the tick that ret describes
StepEntry(k) == appended[Len(appended) - Len(ret.steps) + k]

(* C1: in every reachable state the purchase alert list holds at most one  *)
(* alert per product id, also when a product id was purchased several      *)
(* times.                                                                  *)
C1_AtMostOneAlertPerProduct ==
    \A i, j \in 1..Len(purchase_price_alerts) :
        i # j => purchase_price_alerts[i].product_id # purchase_price_alerts[j].product_id

\* a tick found two purchases of one product below their purchase prices
C1_Witness ==
    /\ ret.op = "pl_tick"
    /\ Len(ret.steps) = 2
    /\ ret.steps[1].product_id = ret.steps[2].product_id
    /\ ret.steps[1].logged = "purchase_price_drop"
    /\ ret.steps[2].logged = "purchase_price_drop"
    /\ Len(purchase_price_alerts) = 1

\* what C2 says of one checked purchase, but for the percentage
C2_StepUpserts(k) ==
    LET s == ret.steps[k]
        pid == s.product_id
        old == s.alerts_before
        new == s.alerts_after
    IN  /\ HasAlert(new, pid)
        /\ IF HasAlert(old, pid)
           THEN /\ Len(new) = Len(old)
                /\ \A j \in 1..Len(old) :
                      /\ new[j].product_id = old[j].product_id
                      /\ old[j].product_id # pid => new[j] = old[j]
           ELSE /\ Len(new) = Len(old) + 1
                /\ SubSeq(new, 1, Len(old)) = old
                /\ new[Len(new)].product_id = pid
        /\ AlertFor(new, pid).purchased_price = s.price
        /\ AlertFor(new, pid).current_market_price = s.new_market
        /\ AlertFor(new, pid).savings = s.price - s.new_market
        /\ s.logged = "purchase_price_drop"
        /\ StepEntry(k).type = "purchase_price_drop"
        /\ StepEntry(k).product_id = pid
        /\ StepEntry(k).current_market_price = s.new_market

\* drop_percent (tenths of a percent) is exactly savings / price * 100
C2_PercentExact(k) ==
    LET s == ret.steps[k]
        a == AlertFor(s.alerts_after, s.product_id)
    IN  a.drop_percent * s.price = 1000 * a.savings

\* drop_percent is savings / price * 100 rounded to one decimal: it is
\* within half a tenth of a percent of the exact value
C2_PercentRounded(k) ==
    LET s == ret.steps[k]
        a == AlertFor(s.alerts_after, s.product_id)
        err == a.drop_percent * s.price - 1000 * a.savings
    IN  /\ 2 * err <= s.price
        /\ -2 * err <= s.price

(* C2 as stated: on an active purchase tick, a purchase whose new market   *)
(* price is below its purchase price has its alert inserted, or updated in *)
(* place, with purchased_price, current_market_price, savings, and         *)
(* drop_percent = savings / purchase price * 100, and a price-drop log     *)
(* entry is written.                                                       *)
C2_AlertUpsertedExactPercent ==
    ret.op = "pl_tick" =>
        \A k \in 1..Len(ret.steps) :
            ret.steps[k].new_market < ret.steps[k].price =>
                C2_StepUpserts(k) /\ C2_PercentExact(k)

(* C2 amended: the same, with drop_percent = savings / purchase price *    *)
(* 100 rounded to one decimal place.                                       *)
C2_AlertUpsertedRoundedPercent ==
    ret.op = "pl_tick" =>
        \A k \in 1..Len(ret.steps) :
            ret.steps[k].new_market < ret.steps[k].price =>
                C2_StepUpserts(k) /\ C2_PercentRounded(k)

\* a tick updated an existing alert in place, with a percentage that needed
\* rounding
C2_Witness ==
    /\ ret.op = "pl_tick"
    /\ \E k \in 1..Len(ret.steps) :
          /\ ret.steps[k].new_market < ret.steps[k].price
          /\ HasAlert(ret.steps[k].alerts_before, ret.steps[k].product_id)
          /\ ~C2_PercentExact(k)

(* C3: dismissing the alert of a product id removes that alert if there is *)
(* one and leaves every other alert as it was; with no alert for the id    *)
(* the list is unchanged; the endpoint answers 200 "dismissed" either way. *)
C3_DismissRemovesOnlyThatAlert ==
    [][ret'.op = "dismiss" =>
          /\ ~HasAlert(purchase_price_alerts', ret'.product_id)
          /\ IF HasAlert(purchase_price_alerts, ret'.product_id)
             THEN \E k \in 1..Len(purchase_price_alerts) :
                     /\ purchase_price_alerts[k].product_id = ret'.product_id
                     /\ purchase_price_alerts' =
                            SubSeq(purchase_price_alerts, 1, k - 1)
                            \o SubSeq(purchase_price_alerts, k + 1, Len(purchase_price_alerts))
             ELSE purchase_price_alerts' = purchase_price_alerts
          /\ ret'.http = 200
          /\ ret'.status = "dismissed"]_vars

\* a product that had dropped was dismissed while another alert stayed
C3_Witness ==
    /\ ret.op = "dismiss"
    /\ ~HasAlert(purchase_price_alerts, ret.product_id)
    /\ Len(purchase_price_alerts) = 1
    /\ \E i \in 1..Len(appended) :
          /\ appended[i].type = "purchase_price_drop"
          /\ appended[i].product_id = ret.product_id

(* C4: an alert leaves the alert list only by a dismissal of its product   *)
(* id: no tick of either loop removes it, whatever the new market price,   *)
(* and checking a purchase whose price is not below the purchase price     *)
(* ("checked") leaves the alert list as it was.                            *)
C4_OnlyDismissalRemovesAlerts ==
    [][/\ \A pid \in PIDs :
             (HasAlert(purchase_price_alerts, pid) /\ ~HasAlert(purchase_price_alerts', pid))
                 => (ret'.op = "dismiss" /\ ret'.product_id = pid)
       /\ ret'.op \in TickOps =>
             \A k \in 1..Len(ret'.steps) :
                 ret'.steps[k].logged = "purchase_checked" =>
                     ret'.steps[k].alerts_after = ret'.steps[k].alerts_before]_vars

\* a tick saw the price back at or above the purchase price with the alert
\* present, and the alert is still there
C4_Witness ==
    /\ ret.op = "pl_tick"
    /\ \E k \in 1..Len(ret.steps) :
          /\ ret.steps[k].logged = "purchase_checked"
          /\ ret.steps[k].new_market >= ret.steps[k].price
          /\ HasAlert(ret.steps[k].alerts_before, ret.steps[k].product_id)
          /\ HasAlert(purchase_price_alerts, ret.steps[k].product_id)

(* C5: the tracking log never holds more than 100 entries and always is    *)
(* the most recent min(n, 100) of the n entries appended so far, in append *)
(* order.                                                                  *)
C5_LogIsMostRecent100 ==
    /\ Len(tracking_log) <= 100
    /\ Len(tracking_log) = (IF Len(appended) < 100 THEN Len(appended) ELSE 100)
    /\ \A i \in 1..Len(tracking_log) :
          tracking_log[i] = appended[Len(appended) - Len(tracking_log) + i]

\* the 101st entry was appended and the oldest one is gone
C5_Witness ==
    /\ Len(appended) = 101
    /\ Len(tracking_log) = 100
    /\ tracking_log # SubSeq(appended, 1, 100)

(* C6: the gate answers active iff now - lastActive < 24h, and answers     *)
(* active right after recordActivity().                                    *)
C6_ActiveIffWithin24h ==
    /\ ret.op \in TickOps => (ret.active <=> (now - last_active < 24 * UnitsPerHour))
    /\ ret.op = "status" => ret.user_active

\* a tick found the user inactive at exactly 24 hours
C6_Witness ==
    /\ ret.op \in TickOps
    /\ ~ret.active
    /\ now - last_active = 24 * UnitsPerHour

(* C7: a tick that finds the gate inactive changes no watchlist item, no   *)
(* market price, no alert and no purchase, and appends exactly one paused  *)
(* entry of its loop to the log.                                           *)
C7_InactiveTickOnlyLogsPaused ==
    [][(ret'.op \in TickOps /\ now - last_active >= 24 * UnitsPerHour) =>
          /\ watchlist' = watchlist
          /\ purchase_market_prices' = purchase_market_prices
          /\ purchase_price_alerts' = purchase_price_alerts
          /\ purchase_history' = purchase_history
          /\ Len(appended') = Len(appended) + 1
          /\ SubSeq(appended', 1, Len(appended)) = appended
          /\ Last(appended').type =
                 (IF ret'.op = "wl_tick" THEN "watchlist_paused" ELSE "purchase_paused")
          /\ Last(tracking_log') = Last(appended')]_vars

\* both loops paused with an item to watch and a purchase to recheck
C7_Witness ==
    /\ ret.op = "wl_tick"
    /\ ~ret.active
    /\ Len(watchlist) >= 1
    /\ Len(purchase_history) >= 1
    /\ Last(appended).type = "watchlist_paused"
    /\ \E i \in 1..Len(appended) : appended[i].type = "purchase_paused"

(* C8: every watchlist item has a non-empty price history and a price      *)
(* equal to the price of the last history entry.                           *)
C8_PriceIsLastHistoryEntry ==
    \A i \in 1..Len(watchlist) :
        /\ Len(watchlist[i].price_history) >= 1
        /\ watchlist[i].price = Last(watchlist[i].price_history).price

\* the items the detector has to report: two observations or more, the last
\* one strictly lower than the one before
C9_Dropped ==
    { i \in 1..Len(watchlist) :
        /\ Len(watchlist[i].price_history) >= 2
        /\ watchlist[i].price_history[Len(watchlist[i].price_history)].price
               < watchlist[i].price_history[Len(watchlist[i].price_history) - 1].price }

C9_Matches(d, i) ==
    /\ d.product_id = watchlist[i].product_id
    /\ d.current_price = watchlist[i].price_history[Len(watchlist[i].price_history)].price
    /\ d.previous_price = watchlist[i].price_history[Len(watchlist[i].price_history) - 1].price

(* C9: the detector reports an item iff its history has at least two       *)
(* observations and the last price is strictly lower than the one before.  *)
C9_RecordIffLastBelowPrevious ==
    ret.op = "price_drops" =>
        /\ Len(ret.drops) = Cardinality(C9_Dropped)
        /\ \A i \in C9_Dropped : \E k \in 1..Len(ret.drops) : C9_Matches(ret.drops[k], i)
        /\ \A k \in 1..Len(ret.drops) : \E i \in C9_Dropped : C9_Matches(ret.drops[k], i)

\* one item reported, another with two equal observations left out
C9_Witness ==
    /\ ret.op = "price_drops"
    /\ Len(ret.drops) = 1
    /\ \E i \in 1..Len(watchlist) :
          /\ Len(watchlist[i].price_history) >= 2
          /\ Last(watchlist[i].price_history).price
                 = watchlist[i].price_history[Len(watchlist[i].price_history) - 1].price

(* C10: every reported record has alert_level "high" when its reported     *)
(* drop_percent is >= 15 or hit_target holds, else "medium" when the       *)
(* reported drop_percent is >= 5, else "low".                              *)
C10_LevelFollowsReportedPercent ==
    ret.op = "price_drops" =>
        \A k \in 1..Len(ret.drops) :
            ret.drops[k].alert_level =
                (IF ret.drops[k].drop_percent >= 150 \/ ret.drops[k].hit_target
                 THEN "high"
                 ELSE IF ret.drops[k].drop_percent >= 50 THEN "medium" ELSE "low")

\* record d carries the prices and the target of watchlist item i: current
\* and previous are the last two observations, original is the first one
C11_FromItem(d, i) ==
    LET h == watchlist[i].price_history
    IN  /\ d.product_id = watchlist[i].product_id
        /\ d.current_price = h[Len(h)].price
        /\ d.previous_price = h[Len(h) - 1].price
        /\ d.original_price = h[1].price
        /\ d.target_price = watchlist[i].target_price

C11_Fields(d) ==
    /\ d.drop_amount = d.previous_price - d.current_price
    /\ d.total_savings = (IF d.original_price - d.current_price > 0
                          THEN d.original_price - d.current_price ELSE 0)
    /\ d.hit_target <=> (d.target_price # NoTarget /\ d.current_price <= d.target_price)

\* drop_percent (tenths of a percent) is exactly drop_amount / previous * 100
C11_PercentExact(d) ==
    IF d.previous_price = 0 THEN d.drop_percent = 0
    ELSE d.drop_percent * d.previous_price = 1000 * d.drop_amount

\* drop_percent is drop_amount / previous * 100 rounded to one decimal: it
\* is within half a tenth of a percent of the exact value
C11_PercentRounded(d) ==
    IF d.previous_price = 0 THEN d.drop_percent = 0
    ELSE LET err == d.drop_percent * d.previous_price - 1000 * d.drop_amount
         IN  2 * err <= d.previous_price /\ -2 * err <= d.previous_price

(* C11 as stated: every reported drop record has drop_amount = previous -  *)
(* current, drop_percent = drop_amount / previous * 100 (0 if previous is  *)
(* 0), total_savings = max(0, original - current) with original the first  *)
(* history entry, and hit_target true iff a target price is set and        *)
(* current <= target_price.                                                *)
C11_RecordFieldsExactPercent ==
    ret.op = "price_drops" =>
        \A k \in 1..Len(ret.drops) :
            /\ \E i \in C9_Dropped : C11_FromItem(ret.drops[k], i)
            /\ C11_Fields(ret.drops[k])
            /\ C11_PercentExact(ret.drops[k])

(* C11 amended: the same, with drop_percent = drop_amount / previous * 100 *)
(* rounded to one decimal place.                                           *)
C11_RecordFieldsRoundedPercent ==
    ret.op = "price_drops" =>
        \A k \in 1..Len(ret.drops) :
            /\ \E i \in C9_Dropped : C11_FromItem(ret.drops[k], i)
            /\ C11_Fields(ret.drops[k])
            /\ C11_PercentRounded(ret.drops[k])

\* a reported record that hit its target, saved more in total than in the
\* last step, and whose percentage needed rounding
C11_Witness ==
    /\ ret.op = "price_drops"
    /\ \E k \in 1..Len(ret.drops) :
          /\ ret.drops[k].hit_target
          /\ ret.drops[k].total_savings > ret.drops[k].drop_amount
          /\ ~C11_PercentExact(ret.drops[k])


(* C12: the list the detector returns is ordered by drop_percent, largest  *)
(* first, and the detector leaves the watchlist, with every item's price   *)
(* and history, as it was.                                                 *)
C12_SortedAndWatchlistUntouched ==
    [][ret'.op = "price_drops" =>
          /\ \A k \in 1..(Len(ret'.drops) - 1) :
                ret'.drops[k].drop_percent >= ret'.drops[k + 1].drop_percent
          /\ watchlist' = watchlist]_vars

\* two items reported, the later item of the watchlist first
C12_Witness ==
    /\ ret.op = "price_drops"
    /\ Len(ret.drops) = 2
    /\ Len(watchlist) = 2
    /\ ret.drops[1].drop_percent > ret.drops[2].drop_percent
    /\ C11_FromItem(ret.drops[1], 2)
    /\ ~C11_FromItem(ret.drops[1], 1)


(* C13 as stated: for every positive price p the simulated price lies      *)
(* within [0.92p, 1.04p] and is rounded to 2 decimal places, in all three  *)
(* branches.  Prices here are in tenths of a cent.                         *)
C13_InRangeAndRounded ==
    ret.op = "simulate" =>
        /\ 100 * ret.result >= 92 * ret.price
        /\ 100 * ret.result <= 104 * ret.price
        /\ ret.result % 10 = 0

(* C13 amended: the simulated price lies within half a cent of             *)
(* [0.92p, 1.04p]; a price that differs from p is rounded to 2 decimal     *)
(* places, and the unchanged branch returns p itself.                      *)
C13_InRangeAfterRounding ==
    ret.op = "simulate" =>
        /\ 100 * ret.result >= 92 * ret.price - 500
        /\ 100 * ret.result <= 104 * ret.price + 500
        /\ ret.result # ret.price => ret.result % 10 = 0

\* a price in whole cents whose largest drop rounds to below 0.92p
C13_Witness ==
    /\ ret.op = "simulate"
    /\ ret.price % 10 = 0
    /\ ret.result % 10 = 0
    /\ 100 * ret.result < 92 * ret.price


\* time left before the 24h threshold, in clock units
C14_Remaining == 24 * UnitsPerHour - (now - last_active)

\* what C14 says of get_tracking_status(), but for hours_until_pause of an
\* active user; what GET /api/tracking/status returned is the same record
C14_StatusFields ==
    LET s == get_tracking_status
        n == Len(tracking_log)
        k == IF n < 20 THEN n ELSE 20
    IN  /\ s.user_active <=> (now - last_active < 24 * UnitsPerHour)
        /\ Len(s.recent_activity) = k
        /\ \A i \in 1..k : s.recent_activity[i] = tracking_log[n - k + i]
        /\ s.purchase_alerts = purchase_price_alerts
        /\ ~s.user_active => s.hours_until_pause = 0
        /\ s.hours_until_pause <= 240
        /\ ret.op = "status" =>
              /\ ret.user_active = s.user_active
              /\ ret.recent_activity = s.recent_activity
              /\ ret.purchase_alerts = s.purchase_alerts
              /\ ret.hours_until_pause = s.hours_until_pause

(* C14 as stated: get_tracking_status returns user_active = the gate's     *)
(* answer, recent_activity = the last min(20, n) log entries in log order, *)
(* purchase_alerts = the whole alert list, and hours_until_pause = 0 when  *)
(* the user is inactive and otherwise the time left before the 24h         *)
(* threshold, in hours, at most 24.                                        *)
C14_StatusExactHours ==
    /\ C14_StatusFields
    /\ get_tracking_status.user_active =>
          get_tracking_status.hours_until_pause * UnitsPerHour = 10 * C14_Remaining

(* C14 amended: the same, with hours_until_pause = the time left in hours  *)
(* rounded to one decimal place.                                           *)
C14_StatusRoundedHours ==
    /\ C14_StatusFields
    /\ get_tracking_status.user_active =>
          LET err == get_tracking_status.hours_until_pause * UnitsPerHour
                         - 10 * C14_Remaining
          IN  2 * err <= UnitsPerHour /\ -2 * err <= UnitsPerHour

\* the status was asked with more than 20 entries in the log, after a pause,
\* and an alert present
C14_Witness ==
    /\ ret.op = "status"
    /\ Len(tracking_log) > 20
    /\ ret.recent_activity = SubSeq(tracking_log, Len(tracking_log) - 19, Len(tracking_log))
    /\ ret.recent_activity[1].type = "purchase_paused"
    /\ ret.purchase_alerts # <<>>
    /\ ret.hours_until_pause = 240


\* how many times the loop has rechecked product pid
TimesChecked(pid) ==
    Cardinality({ i \in 1..Len(appended) :
                    /\ appended[i].type \in {"purchase_price_drop", "purchase_checked"}
                    /\ appended[i].product_id = pid })

\* step k of the tick rechecked a purchase bought at $50 and drew price m
C15_StepDraws(k, m) ==
    /\ ret.steps[k].price = 5000
    /\ ret.steps[k].new_market = m

(* C15 as stated: for a purchase bought at 50, after two purchase-loop     *)
(* ticks the simulated market price is 40 and the alert {purchased_price   *)
(* 50, current_market_price 40, savings 10, drop_percent 20} exists.       *)
C15_MarketIs40AfterTwoTicks ==
    (ret.op = "pl_tick" /\ TimesChecked("p1") = 2) =>
        /\ purchase_market_prices["p1"] = 4000
        /\ HasAlert(purchase_price_alerts, "p1")
        /\ AlertFor(purchase_price_alerts, "p1") =
               [product_id |-> "p1", purchased_price |-> 5000,
                current_market_price |-> 4000, savings |-> 1000,
                drop_percent |-> 200, timestamp |-> now]

(* C15 amended: for a purchase bought at 50, the tick on which the         *)
(* simulated market price becomes 40 inserts the alert {purchased_price    *)
(* 50, current_market_price 40, savings 10, drop_percent 20}, or updates   *)
(* the product's alert in place to it; one application of the simulator    *)
(* lowers a price by 8% at most, so no two applications lead from 50 to    *)
(* 40: the price is above 40 after two ticks.                              *)
C15_AlertWhenMarketReaches40 ==
    /\ ret.op = "pl_tick" =>
          \A k \in 1..Len(ret.steps) :
              C15_StepDraws(k, 4000) =>
                  /\ C2_StepUpserts(k)
                  /\ AlertFor(ret.steps[k].alerts_after, ret.steps[k].product_id) =
                         [product_id |-> ret.steps[k].product_id,
                          purchased_price |-> 5000,
                          current_market_price |-> 4000, savings |-> 1000,
                          drop_percent |-> 200, timestamp |-> now]
    /\ ("p1" \in DOMAIN purchase_market_prices /\ TimesChecked("p1") <= 2) =>
          purchase_market_prices["p1"] > 4000
    /\ ret.op = "purchase" =>
          \A a \in _simulate_price_check(5000) :
              \A b \in _simulate_price_check(a) : b > 4000

\* the third recheck drew $40 and the alert, which showed $43, shows $40
C15_Witness ==
    /\ ret.op = "pl_tick"
    /\ TimesChecked("p1") = 3
    /\ Len(ret.steps) = 1
    /\ C15_StepDraws(1, 4000)
    /\ HasAlert(ret.steps[1].alerts_before, "p1")
    /\ AlertFor(ret.steps[1].alerts_before, "p1").current_market_price = 4300
    /\ AlertFor(purchase_price_alerts, "p1").current_market_price = 4000
    /\ AlertFor(purchase_price_alerts, "p1").drop_percent = 200

\* the alert of product pid showed market price m at some tick so far
AlertHasShown(pid, m) ==
    \E i \in 1..Len(appended) :
        /\ appended[i].type = "purchase_price_drop"
        /\ appended[i].product_id = pid
        /\ appended[i].current_market_price = m

(* C16 as stated: for a purchase bought at 50 whose alert has shown market *)
(* price 40, a later tick on which the simulated market price has risen to *)
(* 45 leaves the alert unchanged.                                          *)
C16_RiseTo45LeavesAlert ==
    ret.op = "pl_tick" =>
        \A k \in 1..Len(ret.steps) :
            (C15_StepDraws(k, 4500) /\ AlertHasShown(ret.steps[k].product_id, 4000)) =>
                ret.steps[k].alerts_after = ret.steps[k].alerts_before

(* C16 amended: for a purchase bought at 50 whose alert has shown market   *)
(* price 40, a later tick on which the simulated market price has risen to *)
(* 45, still below 50, updates the alert in place to {purchased_price 50,  *)
(* current_market_price 45, savings 5, drop_percent 10}.                   *)
C16_RiseTo45UpdatesAlert ==
    ret.op = "pl_tick" =>
        \A k \in 1..Len(ret.steps) :
            (C15_StepDraws(k, 4500) /\ AlertHasShown(ret.steps[k].product_id, 4000)) =>
                /\ C2_StepUpserts(k)
                /\ Len(ret.steps[k].alerts_after) = Len(ret.steps[k].alerts_before)
                /\ AlertFor(ret.steps[k].alerts_after, ret.steps[k].product_id) =
                       [product_id |-> ret.steps[k].product_id,
                        purchased_price |-> 5000,
                        current_market_price |-> 4500, savings |-> 500,
                        drop_percent |-> 100, timestamp |-> now]

\* the price came back from $40 to $45 and the alert went from $44 to $45
C16_Witness ==
    /\ ret.op = "pl_tick"
    /\ Len(ret.steps) = 1
    /\ C15_StepDraws(1, 4500)
    /\ AlertHasShown("p1", 4000)
    /\ HasAlert(ret.steps[1].alerts_before, "p1")
    /\ AlertFor(ret.steps[1].alerts_before, "p1").current_market_price = 4400
    /\ AlertFor(purchase_price_alerts, "p1").current_market_price = 4500


(* C17: on an active watchlist tick, for every item of the watchlist, also *)
(* one that shares its product id with another item: if the simulated      *)
(* price differs from the item's price, {new price, now} is appended to    *)
(* that item's price history, that item's price becomes the new price and  *)
(* one price-update entry with old, new and change is logged; if it does   *)
(* not differ, the item is left as it was and one checked entry is logged. *)
C17_TickUpdatesThatItem ==
    [][(ret'.op = "wl_tick" /\ ret'.active) =>
          /\ Len(ret'.steps) = Len(watchlist)
          /\ Len(watchlist') = Len(watchlist)
          /\ Len(appended') = Len(appended) + Len(watchlist)
          /\ \A i \in 1..Len(watchlist) :
                LET new_price == ret'.steps[i].new_price
                    entry == appended'[Len(appended) + i]
                IN  IF new_price # watchlist[i].price
                    THEN /\ watchlist'[i] =
                                [watchlist[i] EXCEPT
                                    !.price_history =
                                        Append(@, [price |-> new_price, date |-> now]),
                                    !.price = new_price]
                         /\ entry = [type |-> "watchlist_price_update",
                                     product_id |-> watchlist[i].product_id,
                                     old_price |-> watchlist[i].price,
                                     new_price |-> new_price,
                                     change |-> new_price - watchlist[i].price,
                                     timestamp |-> now]
                    ELSE /\ watchlist'[i] = watchlist[i]
                         /\ entry = [type |-> "watchlist_checked",
                                     product_id |-> watchlist[i].product_id,
                                     price |-> watchlist[i].price,
                                     timestamp |-> now]]_vars


\* history h is kept as the beginning of history g
C18_Extends(h, g) ==
    /\ Len(g) >= Len(h)
    /\ SubSeq(g, 1, Len(h)) = h

\* this step takes no entry out of a history, reorders or rewrites none: an
\* item that stays keeps its history as the beginning of the new one (a
\* removal leaves the items that stay as they were)
C18_AppendOnlyStep ==
    IF ret'.op = "remove_watchlist"
    THEN \A j \in 1..Len(watchlist') :
             \E i \in 1..Len(watchlist) : watchlist'[j] = watchlist[i]
    ELSE /\ Len(watchlist') >= Len(watchlist)
         /\ \A i \in 1..Len(watchlist) :
               C18_Extends(watchlist[i].price_history, watchlist'[i].price_history)

\* the timestamps of every history never decrease along it
C18_MonotoneDates ==
    \A i \in 1..Len(watchlist) :
        \A k \in 1..(Len(watchlist[i].price_history) - 1) :
            watchlist[i].price_history[k].date <= watchlist[i].price_history[k + 1].date

(* C18: for every item that stays on the watchlist the price history is    *)
(* append-only over ticks and requests (entries are never removed,         *)
(* reordered or modified, new ones come at the end), and the timestamps of *)
(* a history never decrease along it.                                      *)
C18_AppendOnlyMonotoneDates ==
    [][C18_AppendOnlyStep /\ C18_MonotoneDates']_vars

\* the steps among the first n of a tick that rechecked product pid
C19_StepsOf(steps, pid, n) == { j \in 1..n : steps[j].product_id = pid }

C19_Max(S) == CHOOSE j \in S : \A i \in S : i <= j

\* the price step k of a tick has to start from, pmp being the market
\* prices stored before the tick: the product's stored market price, set
\* earlier in this tick or before it, and the purchase price when the
\* product id is seen for the first time
C19_Base(steps, pmp, k) ==
    LET pid == steps[k].product_id
        earlier == C19_StepsOf(steps, pid, k - 1)
    IN  IF earlier # {} THEN steps[C19_Max(earlier)].new_market
        ELSE IF pid \in DOMAIN pmp THEN pmp[pid]
        ELSE steps[k].price

(* C19: the purchase loop keeps one simulated market price per product id: *)
(* the first time a product id is seen on an active tick the simulator is  *)
(* applied to the purchase price, from then on to the market price stored  *)
(* for that id; the purchase records are never changed by the loop.        *)
C19_OneMarketPricePerProduct ==
    [][ret'.op = "pl_tick" =>
          /\ purchase_history' = purchase_history
          /\ ret'.active =>
                /\ Len(ret'.steps) = Len(purchase_history)
                /\ \A k \in 1..Len(purchase_history) :
                      /\ ret'.steps[k].product_id = purchase_history[k].product_id
                      /\ ret'.steps[k].price = purchase_history[k].price
                      /\ ret'.steps[k].new_market \in
                             _simulate_price_check(
                                 C19_Base(ret'.steps, purchase_market_prices, k))
                /\ DOMAIN purchase_market_prices' =
                       DOMAIN purchase_market_prices
                           \cup { purchase_history[k].product_id :
                                    k \in 1..Len(purchase_history) }
                /\ \A pid \in DOMAIN purchase_market_prices' :
                      LET mine == C19_StepsOf(ret'.steps, pid, Len(ret'.steps))
                      IN  purchase_market_prices'[pid] =
                              (IF mine # {}
                               THEN ret'.steps[C19_Max(mine)].new_market
                               ELSE purchase_market_prices[pid])]_vars

\* two purchases of one product at different prices were rechecked on one
\* tick, and the second price drawn is none the simulator gives for the
\* second purchase's own price
C19_Witness ==
    /\ ret.op = "pl_tick"
    /\ Len(ret.steps) = 2
    /\ ret.steps[1].product_id = ret.steps[2].product_id
    /\ ret.steps[1].price # ret.steps[2].price
    /\ ret.steps[2].new_market \notin _simulate_price_check(ret.steps[2].price)
    /\ purchase_market_prices[ret.steps[2].product_id] = ret.steps[2].new_market
    /\ \A k \in 1..2 : purchase_history[k].price = ret.steps[k].price


(* C20: the loops never insert or delete watchlist items or purchase       *)
(* records.  A watchlist tick changes only price and price_history of      *)
(* items that are there, and no purchase, market price or alert; a         *)
(* purchase tick changes neither the watchlist nor the purchase list; the  *)
(* tracking log is the only state that both loops write.                   *)
C20_LoopsKeepToTheirData ==
    [][/\ ret'.op = "wl_tick" =>
             /\ Len(watchlist') = Len(watchlist)
             /\ \A i \in 1..Len(watchlist) :
                   watchlist'[i] =
                       [watchlist[i] EXCEPT
                           !.price = watchlist'[i].price,
                           !.price_history = watchlist'[i].price_history]
             /\ purchase_history' = purchase_history
             /\ purchase_market_prices' = purchase_market_prices
             /\ purchase_price_alerts' = purchase_price_alerts
       /\ ret'.op = "pl_tick" =>
             /\ watchlist' = watchlist
             /\ purchase_history' = purchase_history
             /\ tracking_running' = tracking_running
       /\ ret'.op \in TickOps => (last_active' = last_active /\ now' = now)]_vars

\* both loops have found a lower price for their product: the item has a
\* new observation, the purchase has an alert, and both wrote to the log
C20_Witness ==
    /\ ret.op \in TickOps
    /\ \E i \in 1..Len(watchlist) :
          /\ watchlist[i].price < watchlist[i].price_history[1].price
          /\ HasAlert(purchase_price_alerts, watchlist[i].product_id)
    /\ \E i, j \in 1..Len(tracking_log) :
          /\ tracking_log[i].type = "watchlist_price_update"
          /\ tracking_log[j].type = "purchase_price_drop"


----------------------------------------------------------------------------
(* C21 *)

\* what one uninterrupted pass makes of the frame the body started from
C21_WlOutcomes ==
    { [wl |-> s.wl, log |-> s.log, app |-> s.app] :
        s \in watchlist_pass(ret.start, 1, ret.at) }

C21_PlOutcomes ==
    { [pmp |-> s.pmp, alerts |-> s.alerts, log |-> s.log, app |-> s.app] :
        s \in purchase_pass(ret.start, ret.start.purchases, 1, ret.at) }

\* C21: each loop suspends only at its sleep.  While a loop is in its body
\* the last thing that happened is a step of that same loop (no request
\* handler, no step of the other loop and no shutdown came in between) and
\* the other loop is not in its body; when a body ends, the stores and the
\* log are what one uninterrupted pass over the snapshot makes of the
\* stores and the log the body started from; and a cancelled loop was
\* cancelled at its sleep, both loops together, with no item of a tick
\* left unprocessed.
C21_LoopsSuspendOnlyAtSleep ==
    /\ wl_task.state = "body" =>
          /\ ret.op \in {"wl_wake", "wl_item"}
          /\ pl_task.state # "body"
    /\ pl_task.state = "body" =>
          /\ ret.op \in {"pl_wake", "pl_item"}
          /\ wl_task.state # "body"
    /\ (ret.op = "wl_item" /\ ret.done) =>
          [wl |-> watchlist, log |-> tracking_log, app |-> appended]
              \in C21_WlOutcomes
    /\ (ret.op = "pl_item" /\ ret.done) =>
          [pmp |-> purchase_market_prices, alerts |-> purchase_price_alerts,
           log |-> tracking_log, app |-> appended] \in C21_PlOutcomes
    /\ wl_task.state = "cancelled" <=> pl_task.state = "cancelled"
    /\ wl_task.state = "cancelled" => wl_task.i = 0
    /\ pl_task.state = "cancelled" => pl_task.i = 0

\* both loops are cancelled after a watchlist tick over two items and a
\* purchase tick that found a drop
C21_Witness ==
    /\ ret.op = "shutdown"
    /\ wl_task.state = "cancelled"
    /\ pl_task.state = "cancelled"
    /\ Len(watchlist) = 2
    /\ Len(appended) = 3
    /\ appended[1].type = "watchlist_checked"
    /\ appended[2].type = "watchlist_checked"
    /\ appended[3].type = "purchase_price_drop"


----------------------------------------------------------------------------
(* C22 *)

\* C22: an exception raised while a tick processes an item does not end
\* the loop: right after the fault the loop is back at its sleep, from
\* where it runs its next tick, and the fault has been written to the log
C22_FaultIsLoggedAndLoopGoesOn ==
    /\ ret.op = "wl_fault" =>
          /\ wl_task.state = "sleep"
          /\ Len(appended) > ret.logged
    /\ ret.op = "pl_fault" =>
          /\ pl_task.state = "sleep"
          /\ Len(appended) > ret.logged


----------------------------------------------------------------------------
(* C23 *)

C23_Rank(status) ==
    CHOOSE k \in 1..Len(_STATUS_THRESHOLDS) : _STATUS_THRESHOLDS[k].status = status

\* C23: the shipping status is recomputed from the elapsed time on each
\* read and is not stored and advanced.  Every read of a purchase, in the
\* purchase list or in the shipping listing, shows the status that the time
\* elapsed at that read determines; no step moves a status backwards along
\* processing, confirmed, shipped, in_transit, out_for_delivery, delivered;
\* and no step changes any other field of a record.
C23_ReadsRecomputeStatus ==
    [][ /\ ret'.op = "purchases" =>
             \A k \in 1..Len(ret'.purchases) :
                ret'.purchases[k].shipping_status
                    = status_after((now' - ret'.purchases[k].timestamp)
                                       * SecondsPerUnit)
        /\ ret'.op = "shipping" =>
             \A k \in 1..Len(ret'.shipments) :
                ret'.shipments[k].shipping_status
                    = status_after((now' - ret'.shipments[k].timestamp)
                                       * SecondsPerUnit)
        /\ \A k \in 1..Len(purchase_history) :
             /\ k <= Len(purchase_history')
             /\ C23_Rank(purchase_history'[k].shipping_status)
                    <= C23_Rank(purchase_history[k].shipping_status)
             /\ [purchase_history'[k] EXCEPT !.shipping_status = "processing"]
                    = [purchase_history[k] EXCEPT !.shipping_status = "processing"]
      ]_vars


----------------------------------------------------------------------------
(* C24 *)

\* what the routes of the whole system answer with
C24_RequestOps ==
    {"purchase", "dismiss", "add_watchlist", "remove_watchlist", "price_drops",
     "status", "heartbeat"}

\* C24: activity is recorded on every inbound request before its handler
\* runs.  After any request, a status read or a heartbeat included,
\* last_active is the current time and the gate is open; the status read
\* and the heartbeat already answer with the new last_active, and the
\* status read with a full 24 hours until the pause.
C24_EveryRequestRecordsActivity ==
    /\ ret.op \in C24_RequestOps =>
          /\ last_active = now
          /\ is_user_active
    /\ ret.op = "status" =>
          /\ ret.last_active = now
          /\ ret.hours_until_pause = 10 * 24
    /\ ret.op = "heartbeat" => ret.last_active = now

\* a heartbeat arrives after 24 hours of silence in which the watchlist
\* loop has paused
C24_Witness ==
    /\ ret.op = "heartbeat"
    /\ now = INACTIVE_THRESHOLD
    /\ last_active = now
    /\ ~tracking_running
    /\ \E k \in 1..Len(appended) : appended[k].type = "watchlist_paused"


----------------------------------------------------------------------------
(* C25 *)

\* the step is the first of its tick for its product
C25_FirstOfProduct(steps, k) ==
    \A j \in 1..(k - 1) : steps[j].product_id # steps[k].product_id

\* C25: dismissing an alert does not reset the stored market price of the
\* product.  A dismissal leaves every stored market price as it was; the
\* next active tick draws the product's new market price from the stored
\* one; and whenever the new market price is below the purchase price the
\* product has an alert after the step, showing that market price, whether
\* or not an alert was dismissed before.
C25_DismissalKeepsMarketPrice ==
    [][ /\ ret'.op = "dismiss" => purchase_market_prices' = purchase_market_prices
        /\ (ret'.op = "pl_tick" /\ ret'.active) =>
             \A k \in 1..Len(ret'.steps) :
                LET step == ret'.steps[k]
                IN  /\ C25_FirstOfProduct(ret'.steps, k) =>
                          step.new_market \in _simulate_price_check(
                              current_market(purchase_market_prices,
                                             [product_id |-> step.product_id,
                                              price |-> step.price]))
                    /\ step.new_market < step.price =>
                          /\ HasAlert(step.alerts_after, step.product_id)
                          /\ AlertFor(step.alerts_after, step.product_id)
                                 .current_market_price = step.new_market
      ]_vars

\* a tick puts the alert of a product back: the product had dropped in an
\* earlier tick, has no alert when the tick starts, and the market price
\* the tick started from is below the purchase price
C25_Witness ==
    /\ ret.op = "pl_tick"
    /\ ret.active
    /\ Len(ret.steps) = 1
    /\ ~HasAlert(ret.steps[1].alerts_before, ret.steps[1].product_id)
    /\ HasAlert(purchase_price_alerts, ret.steps[1].product_id)
    /\ Len(appended) = 2
    /\ appended[1].type = "purchase_price_drop"
    /\ appended[1].current_market_price = 18
    /\ ret.steps[1].new_market = 17


----------------------------------------------------------------------------
(* C26 *)

\* C26: every alert in the alert list is for a product id that has a
\* purchase record (one at the alert's purchased_price), shows a
\* current_market_price strictly below its purchased_price, and has
\* savings = purchased_price - current_market_price; this holds as well
\* when one product id was purchased several times at different prices.
C26_AlertsAreConsistent ==
    \A k \in 1..Len(purchase_price_alerts) :
        LET a == purchase_price_alerts[k]
        IN  /\ \E i \in 1..Len(purchase_history) :
                  /\ purchase_history[i].product_id = a.product_id
                  /\ purchase_history[i].price = a.purchased_price
            /\ a.current_market_price < a.purchased_price
            /\ a.savings = a.purchased_price - a.current_market_price

\* one product was purchased at 20 and at 21; a tick found its market price
\* at 20, which is a drop for the second record only, and the alert shows
\* the second record's price
C26_Witness ==
    /\ ret.op = "pl_tick"
    /\ Len(ret.steps) = 2
    /\ ret.steps[1].product_id = ret.steps[2].product_id
    /\ ret.steps[1].price = 20
    /\ ret.steps[2].price = 21
    /\ ret.steps[1].logged = "purchase_checked"
    /\ ret.steps[2].logged = "purchase_price_drop"
    /\ Len(purchase_price_alerts) = 1
    /\ purchase_price_alerts[1].purchased_price = 21
    /\ purchase_price_alerts[1].current_market_price = 20


----------------------------------------------------------------------------
(* C27 *)

\* C27: the tracking_running value that get_tracking_status reports is
\* true iff the user is active now and the most recently executed watchlist
\* tick found the user active.  It is false at process start; every
\* watchlist tick stores what it found and no other step (a purchase tick
\* included) changes what is stored; the reported value is the stored one
\* and the gate together, so it is never true while user_active is false.
C27_RunningIsLastWatchlistTickAndActive ==
    /\ ~tracking_running
    /\ ~get_tracking_status.tracking_running
    /\ [][ /\ ret'.op = "wl_tick" => (tracking_running' <=> ret'.active)
           /\ ret'.op # "wl_tick" => tracking_running' = tracking_running
           /\ ret'.op = "pl_tick" =>
                 get_tracking_status'.tracking_running
                     = get_tracking_status.tracking_running
           /\ get_tracking_status'.tracking_running
                 <=> (tracking_running' /\ now' - last_active' < 24 * UnitsPerHour)
           /\ get_tracking_status'.tracking_running
                 => get_tracking_status'.user_active
           /\ ret'.op = "status" =>
                 ret'.tracking_running = get_tracking_status'.tracking_running
         ]_vars

\* the last watchlist tick found the user active, 24 hours have passed
\* since, and a purchase tick has paused: the stored flag is still set and
\* the reported value is false
C27_Witness ==
    /\ ret.op = "pl_tick"
    /\ ~ret.active
    /\ tracking_running
    /\ ~get_tracking_status.user_active
    /\ ~get_tracking_status.tracking_running


----------------------------------------------------------------------------
(* C28 *)

\* C28: while activity was recorded within the last 24 hours, every tick
\* checks: a watchlist tick writes exactly one entry, 'checked' or
\* 'price update', for each item on the watchlist, in order, and nothing
\* else; a purchase tick writes exactly one entry for each purchase record;
\* neither writes a 'paused' entry, however long the loop has been paused
\* before the activity was recorded.
C28_TickChecksEveryItemWhileActive ==
    [][ /\ (ret'.op = "wl_tick" /\ now - last_active < 24 * UnitsPerHour) =>
             /\ ret'.active
             /\ Len(appended') = Len(appended) + Len(watchlist)
             /\ SubSeq(appended', 1, Len(appended)) = appended
             /\ \A k \in 1..Len(watchlist) :
                   /\ appended'[Len(appended) + k].type
                          \in {"watchlist_checked", "watchlist_price_update"}
                   /\ appended'[Len(appended) + k].product_id
                          = watchlist[k].product_id
        /\ (ret'.op = "pl_tick" /\ now - last_active < 24 * UnitsPerHour) =>
             /\ ret'.active
             /\ Len(appended') = Len(appended) + Len(purchase_history)
             /\ SubSeq(appended', 1, Len(appended)) = appended
             /\ \A k \in 1..Len(purchase_history) :
                   /\ appended'[Len(appended) + k].type
                          \in {"purchase_checked", "purchase_price_drop"}
                   /\ appended'[Len(appended) + k].product_id
                          = purchase_history[k].product_id
      ]_vars

\* the watchlist loop had paused; after a heartbeat its next tick checked
\* both items, one of them at a new price
C28_Witness ==
    /\ ret.op = "wl_tick"
    /\ ret.active
    /\ Len(ret.steps) = 2
    /\ Len(appended) = 3
    /\ appended[1].type = "watchlist_paused"
    /\ appended[2].type = "watchlist_checked"
    /\ appended[3].type = "watchlist_price_update"


----------------------------------------------------------------------------
(* C29 *)

\* C29: in the router-based API, after any sequence of add and remove
\* requests, the watchlist_count that the tracking-status route and the
\* spending route report is the number of items that GET /watchlist
\* returns, and the price-update callback writes to the items that
\* GET /watchlist returns.
C29_CountsAgreeWithWatchlist ==
    /\ ret.op \in {"r_status", "r_spending"} =>
          ret.watchlist_count = Len(watchlist)
    /\ ret.op = "r_update" =>
          /\ Len(watchlist) = Len(ret.before)
          /\ \A k \in 1..Len(watchlist) :
                watchlist[k] # ret.before[k] =>
                    /\ watchlist[k].product_id = ret.product_id
                    /\ watchlist[k].price = ret.new_price


----------------------------------------------------------------------------
(* C30 *)

\* C30: when a second auto-checkout request arrives while a first run is
\* active, the first run is cancelled, and each client's stream delivers
\* only events of that client's own run and ends with its one stream_end:
\* the old stream takes no event of the new run, and the new stream gets
\* no event and no end sentinel of the old run.
C30_StreamsKeepToTheirRun ==
    \A s \in Clients :
        /\ \A k \in 1..Len(streams[s].out) :
              /\ streams[s].out[k].run = s
              /\ streams[s].out[k].step = "stream_end" =>
                    /\ k = Len(streams[s].out)
                    /\ streams[s].state = "ended"
        /\ (handlers[s] = "returned" /\ s > 1 /\ tasks[s - 1].state # "none") =>
              tasks[s - 1].state \in {"cancelling", "done"}


====
